---- MODULE Spec2Model ----
(***************************************************************************)
(* Model of the Prisjakt scraping pipeline (lib/prisjakt-scraper) of       *)
(* hitta-ram: the two entry points scrapePrisjaktSearch and                *)
(* scrapePrisjaktProduct, their extractors and the availability mapping;   *)
(* of the API route that calls them (app/api/prisjakt/search/route.ts);    *)
(* of the cached official-API client (lib/prisjakt-api); and of the batch  *)
(* price refresh of the page (app/page.tsx).                               *)
(*                                                                         *)
(* Text is a sequence of one-character strings, so that lower-casing,      *)
(* substring search and character stripping are computed, not assumed.     *)
(* A fetched document is a record of the markup features the extractors'   *)
(* regular expressions look for.                                           *)
(***************************************************************************)
EXTENDS Integers, Sequences, FiniteSets, TLC

VARIABLES
    availIn,    \* toAvailability: its argument
    availOut,   \* toAvailability: the value it returned
    entry,      \* the entry point that was called: "none", "search", "product"
    arg,        \* its argument: the query or the urlOrId
    pc,         \* where the call stands: at which await, or returned
    fetches,    \* the requests issued so far, in order: [url, answer]
    sHtml,      \* scrapePrisjaktSearch: html, while it is in use
    sStages,    \* scrapePrisjaktSearch: the extraction stages entered
    sRet,       \* scrapePrisjaktSearch: how the call ended
    pHtml,      \* scrapePrisjaktProduct: html
    pStages,    \* scrapePrisjaktProduct: the extraction stages entered
    pRet,       \* scrapePrisjaktProduct: how the call ended
    dedupeIn,   \* dedupeProducts: its argument
    dedupeOut,  \* dedupeProducts: what it returned, applied again to its own result
    route,      \* the POST request of the API route: where it stands, its locals
    cache,      \* prisjakt-api: the module-level Map, cacheKey -> CacheEntry
    now,        \* Date.now()
    lookups,    \* the calls of searchRAM / searchRAMBySpecs, one per caller
    lastChange, \* the last change made to the cache: [op, key, by, call, at]
    page        \* the page: its state hooks and the batch refresh that is running

availVars == <<availIn, availOut>>
scrapeVars == <<entry, arg, pc, fetches, sHtml, sStages, sRet, pHtml, pStages, pRet>>
dedupeVars == <<dedupeIn, dedupeOut>>
apiVars == <<cache, now, lookups, lastChange>>
pageVars == <<page>>
vars == <<availIn, availOut, entry, arg, pc, fetches, sHtml, sStages, sRet, pHtml, pStages, pRet,
          dedupeIn, dedupeOut, route, cache, now, lookups, lastChange, page>>

(***************************************************************************)
(* Text                                                                    *)
(***************************************************************************)
UpperChars == <<"Ö","A","B","C","D","E","F","G","H","I","J","K","L","M","N","O","P","Q","R","S","T","U","V","W","X","Y","Z">>
LowerChars == <<"ö","a","b","c","d","e","f","g","h","i","j","k","l","m","n","o","p","q","r","s","t","u","v","w","x","y","z">>
Digits == {"0","1","2","3","4","5","6","7","8","9"}

\* the value of an absent (undefined) string argument
Undefined == <<"undefined-value">>

\* the lower-case letter of each upper-case letter
LowerOf ==
    [c \in {UpperChars[i] : i \in 1..Len(UpperChars)} |->
        LowerChars[CHOOSE i \in 1..Len(UpperChars) : UpperChars[i] = c]]

\* String.prototype.toLowerCase, one character
LowerChar(c) == IF c \in DOMAIN LowerOf THEN LowerOf[c] ELSE c

\* String.prototype.toLowerCase
toLowerCase(s) == [i \in 1..Len(s) |-> LowerChar(s[i])]

\* String.prototype.includes
includes(s, t) ==
    \E i \in 0..(Len(s) - Len(t)) : SubSeq(s, i + 1, i + Len(t)) = t

\* String.prototype.startsWith
startsWith(s, t) == Len(s) >= Len(t) /\ SubSeq(s, 1, Len(t)) = t

\* the characters the regular expressions' \s matches
Whitespace == {" ", "\t", "\n"}

RECURSIVE trim(_)
\* String.prototype.trim
trim(s) ==
    IF s = <<>> THEN s
    ELSE IF s[1] \in Whitespace THEN trim(Tail(s))
    ELSE IF s[Len(s)] \in Whitespace THEN trim(SubSeq(s, 1, Len(s) - 1))
    ELSE s

RECURSIVE removeTags(_)
\* s.replace(/<[^>]*>/g, ''): every "<" up to the next ">" is dropped; a "<"
\* that no ">" follows is kept
removeTags(s) ==
    IF s = <<>> THEN s
    ELSE IF s[1] = "<" /\ \E j \in 2..Len(s) : s[j] = ">"
    THEN LET j == CHOOSE k \in 2..Len(s) :
                      s[k] = ">" /\ \A l \in 2..(k - 1) : s[l] # ">"
         IN removeTags(SubSeq(s, j + 1, Len(s)))
    ELSE <<s[1]>> \o removeTags(Tail(s))

RECURSIVE collapseWhitespace(_)
\* s.replace(/\s+/g, ' ')
collapseWhitespace(s) ==
    IF s = <<>> THEN s
    ELSE IF s[1] \in Whitespace
    THEN IF Len(s) > 1 /\ s[2] \in Whitespace
         THEN collapseWhitespace(Tail(s))
         ELSE <<" ">> \o collapseWhitespace(Tail(s))
    ELSE <<s[1]>> \o collapseWhitespace(Tail(s))

stripTags(s) == trim(collapseWhitespace(removeTags(s)))

\* a JavaScript number is <<n>>, n counting hundredths (1 299,00 kr is
\* <<129900>>); NaN is the empty tuple
NaN == <<>>
Num(n) == <<n>>
isFinite(x) == x # NaN

DigitChars == <<"0","1","2","3","4","5","6","7","8","9">>
DigitValue == [c \in Digits |-> (CHOOSE i \in 1..Len(DigitChars) : DigitChars[i] = c) - 1]
DigitVal(c) == DigitValue[c]

RECURSIVE IntOf(_)
\* the value of a run of decimal digits (0 for the empty run)
IntOf(ds) ==
    IF ds = <<>> THEN 0
    ELSE 10 * IntOf(SubSeq(ds, 1, Len(ds) - 1)) + DigitVal(ds[Len(ds)])

\* Number(s) for a text of digits, "." and ",": the empty text is 0, digits
\* with at most one "." are a decimal numeral, anything else is NaN.  Digits
\* after the second decimal place are below the model's resolution.
Number(s) ==
    IF s = <<>> THEN Num(0)
    ELSE IF \E i \in 1..Len(s) : s[i] \notin Digits \cup {"."} THEN NaN
    ELSE LET dots == {i \in 1..Len(s) : s[i] = "."} IN
         IF dots = {} THEN Num(100 * IntOf(s))
         ELSE IF Cardinality(dots) > 1 \/ Len(s) = 1 THEN NaN
         ELSE LET p == CHOOSE i \in dots : TRUE
                  frac == SubSeq(s, p + 1, Len(s)) \o <<"0", "0">>
              IN Num(100 * IntOf(SubSeq(s, 1, p - 1)) + IntOf(SubSeq(frac, 1, 2)))

\* s.replace(/[^0-9.,]/g, '').replace(',', '.'): only digits, "." and ","
\* stay, and the first "," becomes "."
cleanPriceText(s) ==
    LET kept == SelectSeq(s, LAMBDA c : c \in Digits \cup {".", ","})
        commas == {i \in 1..Len(kept) : kept[i] = ","}
    IN IF commas = {} THEN kept
       ELSE LET f == CHOOSE i \in commas : \A j \in commas : i <= j
            IN [kept EXCEPT ![f] = "."]

\* Number(text.replace(/[^0-9.,]/g, '').replace(',', '.'))
parsePrice(s) == Number(cleanPriceText(s))

(***************************************************************************)
(* toAvailability                                                          *)
(***************************************************************************)
in_stock == <<"i","n","_","s","t","o","c","k">>
incoming == <<"i","n","c","o","m","i","n","g">>
not_available == <<"n","o","t","_","a","v","a","i","l","a","b","l","e">>
AvailabilityStatus == {in_stock, incoming, not_available}

\* the words toAvailability looks for in the lower-cased argument
InStockTokens == {
    <<"i","n","s","t","o","c","k">>,
    <<"i","n","_","s","t","o","c","k">>,
    <<"i","n"," ","s","t","o","c","k">>,
    <<"a","v","a","i","l","a","b","l","e">> }
IncomingTokens == {
    <<"p","r","e","o","r","d","e","r">>,
    <<"p","r","e","-","o","r","d","e","r">>,
    <<"b","a","c","k","o","r","d","e","r">> }

\* a faulty variant of toAvailability: the argument is matched without lower-casing
toAvailabilityCaseSensitive(avail) ==
    IF avail = Undefined \/ avail = <<>> THEN not_available
    ELSE IF \E t \in InStockTokens : includes(avail, t) THEN in_stock
    ELSE IF \E t \in IncomingTokens : includes(avail, t) THEN incoming
    ELSE not_available

toAvailability(avail) ==
    IF avail = Undefined \/ avail = <<>> THEN not_available
    ELSE LET s == toLowerCase(avail) IN
         IF \E t \in InStockTokens : includes(s, t) THEN in_stock
         ELSE IF \E t \in IncomingTokens : includes(s, t) THEN incoming
         ELSE not_available

\* the pieces the availability inputs are built from: the canonical values,
\* the schema.org item-availability names and free text
AvailFragments == {
    in_stock, incoming, not_available,
    <<"I","n","S","t","o","c","k">>,
    <<"O","u","t","O","f","S","t","o","c","k">>,
    <<"P","r","e","O","r","d","e","r">>,
    <<"p","r","e","-","o","r","d","e","r">>,
    <<"B","a","c","k","O","r","d","e","r">>,
    <<"I","n"," ","S","t","o","c","k">>,
    <<"A","v","a","i","l","a","b","l","e">>,
    <<"S","o","l","d">>,
    <<"s","t","o","c","k">>,
    <<"i","n">>,
    <<" ">>,
    <<"h","t","t","p",":","/","/","s","c","h","e","m","a",".","o","r","g","/">> }

MaxAvailParts == 2

RECURSIVE Concats(_, _)
\* every concatenation of at most n elements of the set of texts S
Concats(S, n) ==
    IF n = 0 THEN {<<>>}
    ELSE LET shorter == Concats(S, n - 1) IN
         shorter \cup {a \o b : a \in shorter, b \in S}

AvailInputs == {Undefined} \cup Concats(AvailFragments, MaxAvailParts)

(***************************************************************************)
(* Offers and their normalisation                                          *)
(***************************************************************************)
prisjakt == <<"p","r","i","s","j","a","k","t">>
Prisjakt == <<"P","r","i","s","j","a","k","t">>
Unknown == <<"U","n","k","n","o","w","n">>
SEK == <<"S","E","K">>
PrisjaktOrigin == <<"h","t","t","p","s",":","/","/","w","w","w",".","p","r","i","s","j","a","k","t",".","n","u">>

\* a JavaScript value is truthy: a text that is neither absent nor empty
Truthy(t) == t # Undefined /\ t # <<>>
\* a || b
OrElse(a, b) == IF Truthy(a) THEN a ELSE b

\* a faulty variant of filterPrisjaktStore: the pattern lacks the i flag
filterPrisjaktStoreCaseSensitive(products) ==
    SelectSeq(products, LAMBDA p : ~includes(p.store, prisjakt))

\* products.filter(p => !/(prisjakt)/i.test(p.store))
filterPrisjaktStore(products) ==
    SelectSeq(products, LAMBDA p : ~includes(toLowerCase(p.store), prisjakt))

\* `${p.name}|${p.store}|${p.storeUrl}`
dedupeKey(p) == p.name \o <<"|">> \o p.store \o <<"|">> \o p.storeUrl

RECURSIVE dedupeFromStopping(_, _, _)
\* a faulty variant of dedupeFrom: the loop ends at the first repeated key
dedupeFromStopping(list, seen, out) ==
    IF list = <<>> THEN out
    ELSE LET p == Head(list) IN
         IF dedupeKey(p) \in seen THEN out \o Tail(list)
         ELSE dedupeFromStopping(Tail(list), seen \cup {dedupeKey(p)}, Append(out, p))

RECURSIVE dedupeFrom(_, _, _)
\* the for loop of dedupeProducts: seen is the Set, out the list
dedupeFrom(list, seen, out) ==
    IF list = <<>> THEN out
    ELSE LET p == Head(list) IN
         IF dedupeKey(p) \in seen THEN dedupeFrom(Tail(list), seen, out)
         ELSE dedupeFrom(Tail(list), seen \cup {dedupeKey(p)}, Append(out, p))

dedupeProducts(list) == dedupeFrom(list, {}, <<>>)

(***************************************************************************)
(* Structured data (JSON-LD).  A parsed value is a node                    *)
(*   [type, name, sku, url, offers, children]                              *)
(* where offers is [t |-> "absent"], [t |-> "object", v |-> offer] or      *)
(* [t |-> "array", v |-> <<offer, ...>>], an offer is [t |-> "null"] or    *)
(* [t |-> "object", price, priceCurrency, seller, url, availability], and  *)
(* a price is [t |-> "undefined"], [t |-> "number", v |-> hundredths] or   *)
(* [t |-> "string", s |-> text].  children are the objects nested under    *)
(* the node's other keys.                                                  *)
(***************************************************************************)
\* an availability value that is truthy and not a string (a number, an object)
NonString == <<"non-string-value">>

normalizeOffers(offers) ==
    IF offers.t = "absent" THEN <<>>
    ELSE IF offers.t = "array" THEN offers.v
    ELSE <<offers.v>>

\* typeof offer.price === 'number' ? offer.price
\*   : Number(String(offer.price).replace(/[^0-9.,]/g, '').replace(',', '.'))
numericPriceOf(price) ==
    IF price.t = "number" THEN Num(price.v)
    ELSE IF price.t = "string" THEN parsePrice(price.s)
    ELSE parsePrice(<<"u","n","d","e","f","i","n","e","d">>)

\* !Number.isFinite(numericPrice) || numericPrice <= 0
badPrice(n) == ~isFinite(n) \/ n[1] <= 0

\* the offer pushed for the Product node obj and its offer entry
ldOffer(obj, offer) ==
    [ id |-> OrElse(obj.sku, OrElse(obj.url, obj.name)) \o <<":", ":">>
                \o (IF Truthy(offer.url) THEN offer.url
                    ELSE IF Truthy(offer.seller) THEN offer.seller ELSE <<>>),
      name |-> obj.name,
      price |-> numericPriceOf(offer.price),
      currency |-> OrElse(offer.priceCurrency, SEK),
      store |-> OrElse(offer.seller, Unknown),
      storeUrl |-> IF Truthy(offer.url) THEN offer.url
                   ELSE IF Truthy(obj.url) THEN obj.url ELSE <<>>,
      availability |-> toAvailability(offer.availability) ]

RECURSIVE validOffersOf(_, _, _)
\* the loop over a Product's offers: [out |-> validOffers, threw |-> a
\* TypeError ended the loop].  Reading a property of a null entry and calling
\* toLowerCase on a non-string availability throw.
validOffersOf(obj, offers, acc) ==
    IF offers = <<>> THEN [out |-> acc, threw |-> FALSE]
    ELSE LET offer == Head(offers) IN
         IF offer.t = "null" THEN [out |-> acc, threw |-> TRUE]
         ELSE IF badPrice(numericPriceOf(offer.price))
         THEN validOffersOf(obj, Tail(offers), acc)
         ELSE IF offer.availability = NonString THEN [out |-> acc, threw |-> TRUE]
         ELSE validOffersOf(obj, Tail(offers), Append(acc, ldOffer(obj, offer)))

RECURSIVE collectProductsFromLdObject(_, _)
RECURSIVE collectEach(_, _)
\* [out |-> the list after the call, threw |-> the call threw].  What was
\* pushed before a throw stays in the list; the offers of the Product whose
\* loop threw were not pushed yet.
collectProductsFromLdObject(obj, out) ==
    LET own == IF obj.type = "Product" /\ Truthy(obj.name)
               THEN validOffersOf(obj, normalizeOffers(obj.offers), <<>>)
               ELSE [out |-> <<>>, threw |-> FALSE]
    IN IF own.threw THEN [out |-> out, threw |-> TRUE]
       ELSE collectEach(obj.children, out \o own.out)

\* the loop over a list of objects, ended by the first throw
collectEach(objs, out) ==
    IF objs = <<>> THEN [out |-> out, threw |-> FALSE]
    ELSE LET r == collectProductsFromLdObject(Head(objs), out) IN
         IF r.threw THEN r ELSE collectEach(Tail(objs), r.out)

RECURSIVE collectBlocks(_, _)
\* the while loop over the script blocks: a block that does not parse, or
\* whose walk throws, is left by its catch and the next block is read
collectBlocks(blocks, results) ==
    IF blocks = <<>> THEN results
    ELSE LET b == Head(blocks) IN
         IF b.malformed THEN collectBlocks(Tail(blocks), results)
         ELSE collectBlocks(Tail(blocks), collectEach(b.items, results).out)

extractProductsFromJsonLd(html) == dedupeProducts(collectBlocks(html.ld, <<>>))

(***************************************************************************)
(* Product page.  The document is                                          *)
(*   [ld, h1, lead, offers, marker]                                        *)
(* ld: the JSON-LD script blocks; h1: the inner markup of the first <h1>   *)
(* (Undefined without one); lead: the text ahead of the offer list;        *)
(* offers: the go-to-shop anchors in document order, each                  *)
(*   [href, title, alt, label, icons]                                      *)
(* with the StoreInfoTitle text, the picture alt text and the PriceLabel   *)
(* text (Undefined when the element is missing) and the stock icon class   *)
(* tokens of the anchor; marker: the page says "Ingen butik har produkten  *)
(* i lager".                                                               *)
(***************************************************************************)
\* (html.match(/<h1[^>]*>([\s\S]*?)<\/h1>/i)?.[1] || '').trim(), tags stripped
headingOf(html) == stripTags(trim(IF html.h1 = Undefined THEN <<>> ELSE html.h1))

\* the alternatives of the store-label noise pattern that are plain words
\* ("gå till butik" holds "butik")
NoiseWords == {
    prisjakt,
    <<"b","u","t","i","k">>,
    <<"r","a","n","k">>,
    <<"o","m","d","ö","m","e">>,
    <<"p","r","o","d","u","k","t">>,
    <<"k","r">>,
    <<"a","n","n","o","n","s">> }

\* /visa\s+\d+/ matches in the lower-cased text s
visaCount(s) ==
    \E i \in 1..Len(s) : \E j \in (i + 5)..Len(s) :
        /\ SubSeq(s, i, i + 3) = <<"v","i","s","a">>
        /\ \A k \in (i + 4)..(j - 1) : s[k] \in Whitespace
        /\ s[j] \in Digits

\* /(prisjakt|gå till butik|butik|rank|omdöme|produkt|kr|annons|visa\s+\d+)/i.test(store)
isNoiseLabel(store) ==
    LET s == toLowerCase(store) IN
    (\E w \in NoiseWords : includes(s, w)) \/ visaCount(s)

\* the store label of an offer anchor: the StoreInfoTitle text, else the
\* picture alt text, trimmed and with tags and runs of white space removed
storeLabelOf(o) ==
    LET fromTitle == IF Truthy(o.title) /\ o.title[1] # "<" THEN trim(o.title) ELSE <<>>
        fromAlt == IF Truthy(o.alt) THEN trim(o.alt) ELSE <<>>
    IN trim(collapseWhitespace(stripTags(IF fromTitle # <<>> THEN fromTitle ELSE fromAlt)))

\* the characters of [0-9\s&nbsp;] under the i flag
PriceLabelChars == Digits \cup Whitespace \cup {"&", "n", "b", "s", "p", ";", "N", "B", "S", "P"}
PriceUnits == {<<"k","r">>, <<"s","e","k">>}

\* the first group of />([0-9\s&nbsp;]+)\s*(kr|sek)<\// on a label text: the
\* text up to the unit, when it is not empty and made of the group's
\* characters; Undefined when the pattern does not match
priceLabelMatch(label) ==
    IF label = Undefined THEN Undefined
    ELSE LET units == {u \in PriceUnits :
                          /\ Len(label) > Len(u)
                          /\ toLowerCase(SubSeq(label, Len(label) - Len(u) + 1, Len(label))) = u
                          /\ \A i \in 1..(Len(label) - Len(u)) : label[i] \in PriceLabelChars}
         IN IF units = {} THEN Undefined
            ELSE LET u == CHOOSE x \in units : TRUE
                 IN SubSeq(label, 1, Len(label) - Len(u))

RECURSIVE removeNbsp(_)
\* s.replace(/&nbsp;/g, '')
removeNbsp(s) ==
    IF s = <<>> THEN s
    ELSE IF startsWith(s, <<"&","n","b","s","p",";">>) THEN removeNbsp(SubSeq(s, 7, Len(s)))
    ELSE <<s[1]>> \o removeNbsp(Tail(s))

\* the stock icon class tokens
IconInStock == "iconstockinstock"
IconIncoming == "iconstockincoming"
IconOutOfStock == "iconstockoutofstock"

\* the availability the icon tokens of an offer anchor give
iconAvailability(icons) ==
    IF IconInStock \in icons THEN in_stock
    ELSE IF IconIncoming \in icons THEN incoming
    ELSE not_available

RECURSIVE offerRows(_, _, _)
\* the while loop over the go-to-shop anchors
offerRows(rows, name, pageUrl) ==
    IF rows = <<>> THEN <<>>
    ELSE LET o == Head(rows)
             store == storeLabelOf(o)
             g == priceLabelMatch(o.label)
             rest == offerRows(Tail(rows), name, pageUrl)
         IN IF store = <<>> \/ isNoiseLabel(store) THEN rest
            ELSE IF g = Undefined THEN rest
            ELSE IF badPrice(parsePrice(removeNbsp(g))) THEN rest
            ELSE << [ id |-> pageUrl \o <<":", ":">> \o store,
                      name |-> name,
                      price |-> parsePrice(removeNbsp(g)),
                      currency |-> SEK,
                      store |-> store,
                      storeUrl |-> o.href,
                      availability |-> iconAvailability(o.icons) ] >> \o rest

RECURSIVE lowestPerStoreKeepFirst(_, _)
\* a faulty variant of lowestPerStore: the first offer of a store is kept
lowestPerStoreKeepFirst(out, byStore) ==
    IF out = <<>> THEN byStore
    ELSE LET p == Head(out)
             at == {i \in 1..Len(byStore) :
                        toLowerCase(byStore[i].store) = toLowerCase(p.store)}
         IN IF at = {} THEN lowestPerStoreKeepFirst(Tail(out), Append(byStore, p))
            ELSE lowestPerStoreKeepFirst(Tail(out), byStore)

RECURSIVE lowestPerStore(_, _)
\* the Map keyed by the lower-cased store: a key keeps the place of its first
\* offer and the value of its cheapest one (the earlier one on equal price)
lowestPerStore(out, byStore) ==
    IF out = <<>> THEN byStore
    ELSE LET p == Head(out)
             at == {i \in 1..Len(byStore) :
                        toLowerCase(byStore[i].store) = toLowerCase(p.store)}
         IN IF at = {} THEN lowestPerStore(Tail(out), Append(byStore, p))
            ELSE LET i == CHOOSE k \in at : TRUE IN
                 IF p.price[1] < byStore[i].price[1]
                 THEN lowestPerStore(Tail(out), [byStore EXCEPT ![i] = p])
                 ELSE lowestPerStore(Tail(out), byStore)

\* a faulty variant of markNoStock: the page-wide marker is ignored
markNoStockIgnored(html, offers) == offers

\* if (/Ingen butik har produkten i lager/i.test(html)) every offer becomes
\* not_available
markNoStock(html, offers) ==
    IF html.marker
    THEN [i \in 1..Len(offers) |-> [offers[i] EXCEPT !.availability = not_available]]
    ELSE offers

extractOffersFromProductPageNaively(html, pageUrl) ==
    LET name == headingOf(html) IN
    IF name = <<>> THEN <<>>
    ELSE markNoStock(html, lowestPerStore(offerRows(html.offers, name, pageUrl), <<>>))

(***************************************************************************)
(* Prices in running text                                                  *)
(***************************************************************************)
\* w is, as a whole, a match of
\* /([0-9][0-9\s]{1,7}(?:[\.,][0-9]{2})?)\s*(kr|sek)/i
isPriceSpan(w) ==
    \E u \in PriceUnits : \E k \in 0..Len(w) :
        LET n == Len(w) - Len(u) - k        \* the length of the first group
            PriceRun(a, b) ==
                /\ b - a + 1 \in 1..7
                /\ \A i \in a..b : w[i] \in Digits \cup Whitespace
        IN /\ n >= 2
           /\ toLowerCase(SubSeq(w, Len(w) - Len(u) + 1, Len(w))) = u
           /\ \A i \in (n + 1)..(n + k) : w[i] \in Whitespace
           /\ w[1] \in Digits
           /\ \/ PriceRun(2, n)
              \/ /\ n >= 5
                 /\ w[n - 2] \in {".", ","}
                 /\ w[n - 1] \in Digits /\ w[n] \in Digits
                 /\ PriceRun(2, n - 3)

\* the leftmost match of the pattern in a text, Undefined without one
firstPriceIn(text) ==
    LET starts == {i \in 1..Len(text) :
                      \E e \in i..Len(text) : isPriceSpan(SubSeq(text, i, e))}
    IN IF starts = {} THEN Undefined
       ELSE LET i == CHOOSE x \in starts : \A y \in starts : x <= y
                e == CHOOSE x \in i..Len(text) : isPriceSpan(SubSeq(text, i, x))
            IN SubSeq(text, i, e)

RECURSIVE firstPriceOf(_)
\* the first match over the texts of a document, in document order
firstPriceOf(texts) ==
    IF texts = <<>> THEN Undefined
    ELSE IF Head(texts) # Undefined /\ firstPriceIn(Head(texts)) # Undefined
    THEN firstPriceIn(Head(texts))
    ELSE firstPriceOf(Tail(texts))

\* priceRaw ? Number(priceRaw.replace(/[^0-9.,]/g, '').replace(',', '.')) : NaN
priceOfRaw(raw) == IF raw = Undefined THEN NaN ELSE parsePrice(raw)

(***************************************************************************)
(* Search page.  The document is                                           *)
(*   [ld, anchors, priceBlock, storeBlock]                                 *)
(* anchors: the <a href> elements in document order, each                  *)
(*   [href, productName, heading, text]                                    *)
(* with the href value, whether the class list holds productName, the      *)
(* inner markup of the anchor's <h3> or <h2> (Undefined without one) and   *)
(* its remaining text; priceBlock: the text of the first                   *)
(* <p class="text-m font-heaviest">; storeBlock: the text of the first     *)
(* hos<span class="font-heaviest"> (Undefined when missing).               *)
(***************************************************************************)
ProductPath == <<"/","p","r","o","d","u","k","t",".","p","h","p","?","p","=">>

\* the href is /produkt\.php\?p=\d+ as a whole
isProductHref(href) ==
    /\ startsWith(href, ProductPath)
    /\ Len(href) > Len(ProductPath)
    /\ \A i \in (Len(ProductPath) + 1)..Len(href) : href[i] \in Digits

\* the href values of the page that are product-detail links, in order
productLinks(html) ==
    LET hrefs == [i \in 1..Len(html.anchors) |-> html.anchors[i].href]
    IN SelectSeq(hrefs, isProductHref)

\* a faulty variant of isNoiseStore: the pattern lacks the i flag
isNoiseStoreCaseSensitive(store) ==
    \E w \in {prisjakt, <<"b","u","t","i","k">>, <<"a","n","n","o","n","s">>, <<"k","r">>} :
        includes(store, w)

\* /(prisjakt|butik|annons|kr)/i.test(store)
isNoiseStore(store) ==
    LET s == toLowerCase(store) IN
    \E w \in {prisjakt, <<"b","u","t","i","k">>, <<"a","n","n","o","n","s">>, <<"k","r">>} :
        includes(s, w)

extractPrimarySearchItems(html) ==
    LET cards == SelectSeq(html.anchors,
                           LAMBDA a : a.productName /\ isProductHref(a.href))
        g == priceLabelMatch(html.priceBlock)
    IN IF cards = <<>> THEN <<>>
       ELSE IF g = Undefined THEN <<>>
       ELSE IF ~Truthy(html.storeBlock) THEN <<>>
       ELSE LET a == Head(cards)
                title == trim(collapseWhitespace(stripTags(
                             (IF a.heading = Undefined THEN <<>> ELSE a.heading) \o a.text)))
                price == parsePrice(removeNbsp(g))
                store == trim(collapseWhitespace(stripTags(html.storeBlock)))
            IN IF isNoiseStore(store) THEN <<>>
               ELSE IF ~badPrice(price) /\ store # <<>> /\ title # <<>>
               THEN << [ id |-> a.href,
                         name |-> title,
                         price |-> price,
                         currency |-> SEK,
                         store |-> store,
                         storeUrl |-> PrisjaktOrigin \o a.href,
                         availability |-> in_stock ] >>
               ELSE <<>>

\* s.replace(/&amp;/g, '&') of decodeHtml; the other entities do not occur
\* in the hrefs of the model
RECURSIVE decodeHtml(_)
decodeHtml(s) ==
    IF s = <<>> THEN s
    ELSE IF startsWith(s, <<"&","a","m","p",";">>)
    THEN <<"&">> \o decodeHtml(SubSeq(s, 6, Len(s)))
    ELSE <<s[1]>> \o decodeHtml(Tail(s))

RECURSIVE naiveRows(_)
\* the while loop over the anchors of extractProductsNaively
naiveRows(anchors) ==
    IF anchors = <<>> THEN <<>>
    ELSE LET a == Head(anchors)
             href == decodeHtml(a.href)
             name == stripTags(trim(IF a.heading = Undefined THEN <<>> ELSE a.heading))
             price == priceOfRaw(firstPriceOf(<<a.heading, a.text>>))
             rest == naiveRows(Tail(anchors))
         IN IF name = <<>> THEN rest
            ELSE IF badPrice(price) THEN rest
            ELSE << [ id |-> OrElse(href, name),
                      name |-> name,
                      price |-> price,
                      currency |-> SEK,
                      store |-> Prisjakt,
                      storeUrl |-> IF startsWith(href, <<"h","t","t","p">>) THEN href
                                   ELSE PrisjaktOrigin \o href,
                      availability |-> in_stock ] >> \o rest

\* the cap of extractProductsNaively: slice(0, 10)
NaiveCap == 10

extractProductsNaively(html) ==
    LET d == dedupeProducts(naiveRows(html.anchors))
    IN SubSeq(d, 1, IF Len(d) < NaiveCap THEN Len(d) ELSE NaiveCap)

(***************************************************************************)
(* The two entry points, between their awaits.  A run of extraction stages *)
(* is [stages, threw, value]: the stages entered, in order, each           *)
(* [stage, out, threw] with its store-filtered output; whether an          *)
(* exception left the try block; the value a normal return gives.          *)
(***************************************************************************)
Ran(stage, out) == [stage |-> stage, out |-> out, threw |-> FALSE]
Threw(stage) == [stage |-> stage, out |-> <<>>, threw |-> TRUE]

\* the offer built from the page heading and the first price of the page
headingOffer(html, url) ==
    LET name == headingOf(html)
        labels == [i \in 1..Len(html.offers) |-> html.offers[i].label]
        price == priceOfRaw(firstPriceOf(<<html.lead>> \o labels))
    IN IF name # <<>> /\ ~badPrice(price)
       THEN << [ id |-> url,
                 name |-> name,
                 price |-> price,
                 currency |-> SEK,
                 store |-> Prisjakt,
                 storeUrl |-> url,
                 availability |-> in_stock ] >>
       ELSE <<>>

\* the run that results when an exception is raised inside the stage named
\* fault: the run itself when that stage is not entered
injectFault(run, fault) ==
    LET at == {i \in 1..Len(run.stages) : run.stages[i].stage = fault} IN
    IF at = {} THEN run
    ELSE LET i == CHOOSE k \in at : TRUE IN
         [stages |-> Append(SubSeq(run.stages, 1, i - 1), Threw(fault)),
          threw |-> TRUE, value |-> <<>>]

\* a faulty variant of productStages: the product-page offers are tried before the
\* structured data
productStagesOffersFirst(html, url) ==
    LET offers == filterPrisjaktStore(extractOffersFromProductPageNaively(html, url))
        products == filterPrisjaktStore(extractProductsFromJsonLd(html))
        last == headingOffer(html, url)
    IN IF offers # <<>>
       THEN [stages |-> <<Ran("offers", offers)>>, threw |-> FALSE, value |-> offers]
       ELSE IF products # <<>>
       THEN [stages |-> <<Ran("offers", offers), Ran("jsonld", products)>>,
             threw |-> FALSE, value |-> products]
       ELSE [stages |-> <<Ran("offers", offers), Ran("jsonld", products), Ran("heading", last)>>,
             threw |-> FALSE, value |-> last]

\* a faulty variant of productStages: the no-stock marker of the page is
\* applied to the offers of every stage
productStagesMarkingAll(html, url) ==
    LET products == markNoStock(html, filterPrisjaktStore(extractProductsFromJsonLd(html)))
        offers == filterPrisjaktStore(extractOffersFromProductPageNaively(html, url))
        last == markNoStock(html, headingOffer(html, url))
    IN IF products # <<>>
       THEN [stages |-> <<Ran("jsonld", products)>>, threw |-> FALSE, value |-> products]
       ELSE IF offers # <<>>
       THEN [stages |-> <<Ran("jsonld", products), Ran("offers", offers)>>,
             threw |-> FALSE, value |-> offers]
       ELSE [stages |-> <<Ran("jsonld", products), Ran("offers", offers), Ran("heading", last)>>,
             threw |-> FALSE, value |-> last]

\* scrapePrisjaktProduct from `const html = await res.text()` to its return
productStages(html, url) ==
    LET products == filterPrisjaktStore(extractProductsFromJsonLd(html))
        offers == filterPrisjaktStore(extractOffersFromProductPageNaively(html, url))
        last == headingOffer(html, url)
    IN IF products # <<>>
       THEN [stages |-> <<Ran("jsonld", products)>>, threw |-> FALSE, value |-> products]
       ELSE IF offers # <<>>
       THEN [stages |-> <<Ran("jsonld", products), Ran("offers", offers)>>,
             threw |-> FALSE, value |-> offers]
       ELSE [stages |-> <<Ran("jsonld", products), Ran("offers", offers), Ran("heading", last)>>,
             threw |-> FALSE, value |-> last]

\* a faulty variant of searchStages: the structured data is tried before the
\* primary card
searchStagesJsonLdFirst(html) ==
    LET focused == filterPrisjaktStore(extractPrimarySearchItems(html))
        productsFromJsonLd == filterPrisjaktStore(extractProductsFromJsonLd(html))
        fallback == filterPrisjaktStore(extractProductsNaively(html))
    IN IF productsFromJsonLd # <<>>
       THEN [stages |-> <<Ran("jsonld", productsFromJsonLd)>>, threw |-> FALSE,
             value |-> productsFromJsonLd]
       ELSE IF focused # <<>>
       THEN [stages |-> <<Ran("jsonld", productsFromJsonLd), Ran("primary", focused)>>,
             threw |-> FALSE, value |-> focused]
       ELSE [stages |-> <<Ran("jsonld", productsFromJsonLd), Ran("primary", focused),
                          Ran("naive", fallback)>>,
             threw |-> FALSE, value |-> fallback]

\* scrapePrisjaktSearch from `const html = await res.text()` to the end of
\* its third stage
searchStages(html) ==
    LET focused == filterPrisjaktStore(extractPrimarySearchItems(html))
        productsFromJsonLd == filterPrisjaktStore(extractProductsFromJsonLd(html))
        fallback == filterPrisjaktStore(extractProductsNaively(html))
    IN IF focused # <<>>
       THEN [stages |-> <<Ran("primary", focused)>>, threw |-> FALSE, value |-> focused]
       ELSE IF productsFromJsonLd # <<>>
       THEN [stages |-> <<Ran("primary", focused), Ran("jsonld", productsFromJsonLd)>>,
             threw |-> FALSE, value |-> productsFromJsonLd]
       ELSE [stages |-> <<Ran("primary", focused), Ran("jsonld", productsFromJsonLd),
                          Ran("naive", fallback)>>,
             threw |-> FALSE, value |-> fallback]

\* (html.match(/href=\"(\/produkt\.php\?p=\d+)\"/i)?.[1]) || ''
firstProductLink(html) ==
    LET links == productLinks(html)
    IN IF links = <<>> THEN <<>> ELSE Head(links)

\* a faulty variant of catchAll: the exception leaves the function
catchNothing(run) ==
    IF run.threw THEN [outcome |-> "rejected", value |-> <<>>]
    ELSE [outcome |-> "returned", value |-> run.value]

\* try { ... } catch { return []; }
catchAll(run) ==
    [outcome |-> "returned", value |-> IF run.threw THEN <<>> ELSE run.value]

\* encodeURIComponent on the characters of the model's queries and ids:
\* letters, digits and - _ . stay, a blank becomes %20
RECURSIVE encodeURIComponent(_)
encodeURIComponent(s) ==
    IF s = <<>> THEN s
    ELSE (IF s[1] = " " THEN <<"%","2","0">>
          ELSE IF s[1] = "=" THEN <<"%","3","D">>
          ELSE IF s[1] = "/" THEN <<"%","2","F">>
          ELSE IF s[1] = ":" THEN <<"%","3","A">>
          ELSE <<s[1]>>) \o encodeURIComponent(Tail(s))

\* `https://www.prisjakt.nu/search?query=${encodeURIComponent(query)}`
searchUrl(query) ==
    PrisjaktOrigin \o <<"/","s","e","a","r","c","h","?","q","u","e","r","y","=">>
        \o encodeURIComponent(query)

RECURSIVE stripFirstNonDigit(_)
\* a faulty variant of stripNonDigits: the pattern lacks the g flag
stripFirstNonDigit(s) ==
    IF s = <<>> THEN s
    ELSE IF s[1] \notin Digits THEN Tail(s)
    ELSE <<s[1]>> \o stripFirstNonDigit(Tail(s))

RECURSIVE stripNonDigits(_)
\* urlOrId.replace(/[^0-9]/g, '')
stripNonDigits(s) ==
    IF s = <<>> THEN s
    ELSE IF s[1] \in Digits THEN <<s[1]>> \o stripNonDigits(Tail(s))
    ELSE stripNonDigits(Tail(s))

\* urlOrId.startsWith('http') ? urlOrId
\*   : `https://www.prisjakt.nu/produkt.php?p=${encodeURIComponent(digits)}`
productUrl(urlOrId) ==
    IF startsWith(urlOrId, <<"h","t","t","p">>) THEN urlOrId
    ELSE PrisjaktOrigin \o ProductPath \o encodeURIComponent(stripNonDigits(urlOrId))

(***************************************************************************)
(* The documents and arguments the model is run on                         *)
(***************************************************************************)
RECURSIVE SeqsUpTo(_, _)
\* the sequences of at most n elements of S
SeqsUpTo(S, n) ==
    IF n = 0 THEN {<<>>}
    ELSE LET shorter == SeqsUpTo(S, n - 1) IN
         shorter \cup {Append(s, x) : s \in shorter, x \in S}

MaxLdOffers == 2
MaxOffers == 2
MaxAnchors == 2

\* offer entries of a JSON-LD Product: two offers of one seller at different
\* urls, a zero price, an offer without seller and url, the host brand as
\* seller, another seller at the url of the first offer, a null entry, an
\* offer whose availability is an object
LdOfferEntries == {
    [t |-> "object", price |-> [t |-> "number", v |-> 10000], priceCurrency |-> Undefined,
     seller |-> <<"P","r","o","s","h","o","p">>, url |-> <<"h","t","t","p","s",":","/","/","s","h","o","p",".","e","x","a","m","p","l","e","/","a">>,
     availability |-> <<"h","t","t","p","s",":","/","/","s","c","h","e","m","a",".","o","r","g","/","I","n","S","t","o","c","k">>],
    [t |-> "object", price |-> [t |-> "string", s |-> <<"9","5",",","5","0">>], priceCurrency |-> <<"E","U","R">>,
     seller |-> <<"P","r","o","s","h","o","p">>, url |-> <<"h","t","t","p","s",":","/","/","s","h","o","p",".","e","x","a","m","p","l","e","/","b">>,
     availability |-> <<"P","r","e","O","r","d","e","r">>],
    [t |-> "object", price |-> [t |-> "number", v |-> 0], priceCurrency |-> Undefined,
     seller |-> <<"I","n","e","t">>, url |-> Undefined, availability |-> Undefined],
    [t |-> "object", price |-> [t |-> "string", s |-> <<"1"," ","2","9","9",",","0","0">>], priceCurrency |-> Undefined,
     seller |-> Undefined, url |-> Undefined, availability |-> <<"O","u","t","O","f","S","t","o","c","k">>],
    [t |-> "object", price |-> [t |-> "number", v |-> 5000], priceCurrency |-> Undefined,
     seller |-> <<"P","r","i","s","j","a","k","t">>, url |-> Undefined, availability |-> <<"I","n","S","t","o","c","k">>],
    [t |-> "object", price |-> [t |-> "number", v |-> 15000], priceCurrency |-> Undefined,
     seller |-> <<"I","n","e","t">>, url |-> <<"h","t","t","p","s",":","/","/","s","h","o","p",".","e","x","a","m","p","l","e","/","a">>, availability |-> Undefined],
    [t |-> "null"],
    [t |-> "object", price |-> [t |-> "number", v |-> 12000], priceCurrency |-> Undefined,
     seller |-> <<"W","e","b","h","a","l","l","e","n">>, url |-> Undefined, availability |-> NonString] }

\* the offers value of a Product holding the entries s
LdOffersField(s) ==
    IF s = <<>> THEN [t |-> "absent"]
    ELSE IF Len(s) = 1 THEN [t |-> "object", v |-> s[1]]
    ELSE [t |-> "array", v |-> s]

LdProduct(name, s, children) ==
    [type |-> "Product", name |-> name, sku |-> Undefined,
     url |-> <<"h","t","t","p","s",":","/","/","w","w","w",".","p","r","i","s","j","a","k","t",".","n","u","/","p","r","o","d","u","k","t",".","p","h","p","?","p","=","1">>,
     offers |-> LdOffersField(s), children |-> children]

LdProducts == {LdProduct(<<"F","u","r","y">>, s, <<>>) : s \in SeqsUpTo(LdOfferEntries, MaxLdOffers)}

LdBlock(items) == [malformed |-> FALSE, items |-> items]
MalformedBlock == [malformed |-> TRUE, items |-> <<>>]

\* documents whose structured data yields nothing after the store filter:
\* no script block, a block that does not parse, only the host brand selling
QuietLd == {
    <<>>,
    <<MalformedBlock>>,
    <<LdBlock(<<LdProduct(<<"F","u","r","y">>, <<CHOOSE o \in LdOfferEntries :
                                        o.t = "object" /\ o.seller = <<"P","r","i","s","j","a","k","t">>>>, <<>>)>>)>> }

\* a Product per block, a block that does not parse ahead of one, and a
\* container object holding a Product that holds another
LdDocuments ==
    QuietLd
    \cup {<<LdBlock(<<p>>)>> : p \in LdProducts}
    \cup {<<MalformedBlock, LdBlock(<<p>>)>> : p \in {q \in LdProducts : q.offers.t = "object"}}
    \cup {<<LdBlock(<<[type |-> "ItemList", name |-> Undefined, sku |-> Undefined,
                       url |-> Undefined, offers |-> [t |-> "absent"],
                       children |-> <<LdProduct(<<"K","i","t">>, <<o>>, <<p>>)>>]>>)>> :
             o \in {x \in LdOfferEntries : x.t = "object"},
             p \in {q \in LdProducts : q.offers.t = "object"}}

GoToShop == <<"h","t","t","p","s",":","/","/","w","w","w",".","p","r","i","s","j","a","k","t",".","n","u","/","g","o","-","t","o","-","s","h","o","p","/">>

\* go-to-shop anchors: one store twice in different letter case and at
\* different prices, a store with both icons and without any, the host
\* brand as label, a zero price
OfferAnchors == {
    [href |-> GoToShop \o <<"1">>, title |-> <<"P","r","o","s","h","o","p">>, alt |-> Undefined,
     label |-> <<"2","0","0"," ","k","r">>, icons |-> {IconInStock}],
    [href |-> GoToShop \o <<"2">>, title |-> Undefined, alt |-> <<"p","r","o","s","h","o","p">>,
     label |-> <<"1","&","n","b","s","p",";","0","0"," ","k","r">>, icons |-> {IconIncoming}],
    [href |-> GoToShop \o <<"3">>, title |-> <<" ","I","n","e","t"," ">>, alt |-> <<"L","o","g","o">>,
     label |-> <<"1"," ","2","9","9"," ","S","E","K">>, icons |-> {IconInStock, IconIncoming}],
    [href |-> GoToShop \o <<"4">>, title |-> <<"I","n","e","t">>, alt |-> Undefined,
     label |-> <<"1","5","0"," ","k","r">>, icons |-> {IconOutOfStock}],
    [href |-> GoToShop \o <<"5">>, title |-> <<"P","r","i","s","j","a","k","t">>, alt |-> Undefined,
     label |-> <<"5","0"," ","k","r">>, icons |-> {IconInStock}],
    [href |-> GoToShop \o <<"6">>, title |-> <<"W","e","b","h","a","l","l","e","n">>, alt |-> Undefined,
     label |-> <<"0"," ","k","r">>, icons |-> {}] }

Headings == {<<"<","b",">","F","u","r","y","<","/","b",">"," "," ","1","6","G","B">>, <<"<","b",">"," ","<","/","b",">">>}
Leads == {Undefined, <<"f","r","."," ","1"," ","2","9","9",",","0","0"," ","k","r">>}

ProductDom(h1, lead, offers, marker) ==
    [h1 |-> h1, lead |-> lead, offers |-> offers, marker |-> marker]

ProductDoms ==
    {ProductDom(h, l, s, m) : h \in Headings, l \in Leads,
                              s \in SeqsUpTo(OfferAnchors, MaxOffers), m \in BOOLEAN}

\* a page with two offers of one store under the no-stock marker, and a bare
\* page
PlainProductDoms ==
    {d \in ProductDoms :
        /\ d.h1 = <<"<","b",">","F","u","r","y","<","/","b",">"," "," ","1","6","G","B">> /\ d.lead # Undefined
        /\ \/ d.offers = <<>> /\ ~d.marker
           \/ /\ Len(d.offers) = 2 /\ d.marker
              /\ d.offers[1].title = <<"P","r","o","s","h","o","p">> /\ d.offers[2].alt = <<"p","r","o","s","h","o","p">>}

ProductPage(ld, d) ==
    [ld |-> ld, h1 |-> d.h1, lead |-> d.lead, offers |-> d.offers, marker |-> d.marker]

ProductPages ==
    {ProductPage(<<>>, d) : d \in ProductDoms}
    \cup {ProductPage(ld, d) : ld \in LdDocuments, d \in PlainProductDoms}

\* anchors of a search page: the result card's product-name link (its title
\* ends in a version number), a product
\* tile with heading and price, an advertisement, a product-name link whose
\* href is no product-detail link
SearchAnchors == {
    [href |-> ProductPath \o <<"1">>, productName |-> TRUE, heading |-> Undefined,
     text |-> <<" ","K","i","n","g","s","t","o","n"," ","<","b",">","F","u","r","y","<","/","b",">"," ","v","e","r"," ","5",".","5","3"," ">>],
    [href |-> ProductPath \o <<"2", "3">>, productName |-> FALSE, heading |-> <<"C","o","r","s","a","i","r">>,
     text |-> <<"2"," ","0","9","5"," ","k","r">>],
    [href |-> <<"h","t","t","p","s",":","/","/","a","d","s",".","e","x","a","m","p","l","e","/","x","?","a","=","1","&","a","m","p",";","b","=","2">>, productName |-> FALSE,
     heading |-> <<"A","n","n","o","n","s">>, text |-> <<"9","9",",","0","0"," ","k","r">>],
    [href |-> ProductPath \o <<"x">>, productName |-> TRUE, heading |-> Undefined,
     text |-> <<"B","a","d">>] }

PriceBlocks == {Undefined, <<"2","&","n","b","s","p",";","0","9","5"," ","k","r">>, <<"n","b","s","p"," ","k","r">>}
StoreBlocks == {Undefined, <<" ","M","J"," "," ","M","u","l","t","i","m","e","d","i","a">>, <<"p","r","i","s","j","a","k","t",".","n","u">>, <<"A","n","n","o","n","s">>}

SearchDoms ==
    {[anchors |-> a, priceBlock |-> p, storeBlock |-> s] :
        a \in SeqsUpTo(SearchAnchors, MaxAnchors), p \in PriceBlocks, s \in StoreBlocks}

PlainSearchDoms ==
    {d \in SearchDoms :
        /\ d.priceBlock # Undefined /\ d.priceBlock[1] = "2"
        /\ d.storeBlock # Undefined
        /\ Len(d.anchors) = 1 /\ d.anchors[1].productName /\ isProductHref(d.anchors[1].href)}

SearchPage(ld, d) ==
    [ld |-> ld, anchors |-> d.anchors, priceBlock |-> d.priceBlock, storeBlock |-> d.storeBlock]

SearchPages ==
    {SearchPage(<<>>, d) : d \in SearchDoms}
    \cup {SearchPage(ld, d) : ld \in LdDocuments, d \in PlainSearchDoms}

\* arguments of scrapePrisjaktSearch
Queries == {<<"C","M","H","4","8","G","X","5">>, <<"K","F","5"," ","v","e","r"," ","5",".","5","3">>}

\* arguments of scrapePrisjaktProduct: full urls, bare and decorated ids, a
\* text without digits, an upper-case scheme
UrlOrIds == {
    <<"h","t","t","p","s",":","/","/","w","w","w",".","p","r","i","s","j","a","k","t",".","n","u","/","p","r","o","d","u","k","t",".","p","h","p","?","p","=","1","1","9","9","5","7","4","0">>,
    <<"h","t","t","p",":","/","/","s","h","o","p",".","e","x","a","m","p","l","e","/","p","/","7">>,
    <<"5","1","3","5","9","1","0">>,
    <<"p","=","5","1","-","3","5"," ","9","1","0","x">>,
    <<"H","T","T","P",":","/","/","X","/","9">>,
    <<"a","b","c">> }

(***************************************************************************)
(* The calls                                                               *)
(***************************************************************************)
NotCalled == <<"not-called">>
\* no page was read
NoDocument == [document |-> "none"]
\* the call has not ended
NotReturned == [outcome |-> "pending", value |-> <<>>]

\* no scrape call was made
ScrapeIdle ==
    /\ entry = "none" /\ arg = NotCalled /\ pc = "idle" /\ fetches = <<>>
    /\ sHtml = NoDocument /\ sStages = <<>> /\ sRet = NotReturned
    /\ pHtml = NoDocument /\ pStages = <<>> /\ pRet = NotReturned

\* the call toAvailability(availIn)
toAvailabilityCall ==
    /\ availOut = NotCalled
    /\ availOut' = toAvailability(availIn)
    /\ UNCHANGED <<availIn, scrapeVars, dedupeVars, apiVars, route, pageVars>>

\* what a request can be answered with: the fetch rejects, or a response
\* with a status arrives
Answers == {"network-error", "status-200", "status-404", "status-500"}

\* a faulty variant of resOk: every response counts as a success
resOkAnyStatus(answer) == answer # "network-error"

\* res.ok: the status is in the range 200-299
resOk(answer) == answer = "status-200"

\* the request that was issued last has the answer a
Answered(a) == [fetches EXCEPT ![Len(fetches)].answer = a]

\* a faulty variant of StartProduct: the request is issued twice
StartProductTwice(urlOrId) ==
    /\ fetches' = fetches \o <<[url |-> productUrl(urlOrId), answer |-> "pending"],
                               [url |-> productUrl(urlOrId), answer |-> "pending"]>>
    /\ pc' = "p_fetch"

\* scrapePrisjaktProduct(urlOrId) up to `await fetch(url, ...)`
StartProduct(urlOrId) ==
    /\ fetches' = Append(fetches, [url |-> productUrl(urlOrId), answer |-> "pending"])
    /\ pc' = "p_fetch"

\* a caller invokes scrapePrisjaktProduct
ProductCall ==
    /\ pc = "idle" /\ route.pc = "idle"
    /\ \E urlOrId \in UrlOrIds :
        /\ entry' = "product"
        /\ arg' = urlOrId
        /\ StartProduct(urlOrId)
    /\ UNCHANGED <<availVars, dedupeVars, apiVars, route, sHtml, sStages, sRet, pHtml, pStages, pRet, pageVars>>

\* the fetch of scrapePrisjaktProduct settles: a rejection is caught, a
\* status outside 2xx returns [], otherwise res.text() is awaited
ProductResponse ==
    /\ pc = "p_fetch"
    /\ \E a \in Answers :
        /\ fetches' = Answered(a)
        /\ IF resOk(a)
           THEN pc' = "p_text" /\ pRet' = pRet
           ELSE /\ pc' = "p_done"
                /\ pRet' = catchAll([threw |-> a = "network-error", value |-> <<>>])
    /\ UNCHANGED <<availVars, dedupeVars, apiVars, route, entry, arg, sHtml, sStages, sRet, pHtml, pStages, pageVars>>

\* res.text() of scrapePrisjaktProduct settles and the function runs to its
\* return: the body fails to arrive, or html is read and the stages run
ProductBody ==
    /\ pc = "p_text"
    /\ \/ /\ pRet' = catchAll([threw |-> TRUE, value |-> <<>>])
          /\ UNCHANGED <<pHtml, pStages>>
       \/ \E html \in ProductPages :
          \E stages \in {productStages(html, fetches[Len(fetches)].url)} :
          \E fault \in {"none", "jsonld", "offers", "heading"} :
          \E run \in {injectFault(stages, fault)} :
            /\ pHtml' = html
            /\ pStages' = run.stages
            /\ pRet' = catchAll(run)
    /\ pc' = "p_done"
    /\ UNCHANGED <<availVars, dedupeVars, apiVars, route, entry, arg, fetches, sHtml, sStages, sRet, pageVars>>

\* a caller invokes scrapePrisjaktSearch, which runs up to `await fetch(url, ...)`
SearchCall ==
    /\ pc = "idle" /\ route.pc = "idle"
    /\ \E query \in Queries :
        /\ entry' = "search"
        /\ arg' = query
        /\ fetches' = Append(fetches, [url |-> searchUrl(query), answer |-> "pending"])
    /\ pc' = "s_fetch"
    /\ UNCHANGED <<availVars, dedupeVars, apiVars, route, sHtml, sStages, sRet, pHtml, pStages, pRet, pageVars>>

\* the fetch of scrapePrisjaktSearch settles
SearchResponse ==
    /\ pc = "s_fetch"
    /\ \E a \in Answers :
        /\ fetches' = Answered(a)
        /\ IF resOk(a)
           THEN pc' = "s_text" /\ sRet' = sRet
           ELSE /\ pc' = "s_done"
                /\ sRet' = catchAll([threw |-> a = "network-error", value |-> <<>>])
    /\ UNCHANGED <<availVars, dedupeVars, apiVars, route, entry, arg, sHtml, sStages, pHtml, pStages, pRet, pageVars>>

\* res.text() of scrapePrisjaktSearch settles and the function runs to its
\* return or to `await scrapePrisjaktProduct(...)`.  html is not used after
\* that call is made: the entry of the stage keeps the product-detail links
\* the page held.
SearchBody ==
    /\ pc = "s_text"
    /\ \/ /\ sRet' = catchAll([threw |-> TRUE, value |-> <<>>])
          /\ pc' = "s_done"
          /\ UNCHANGED <<sHtml, sStages, fetches>>
       \/ \E html \in SearchPages :
          \E stages \in {searchStages(html)} :
          \E fault \in {"none", "primary", "jsonld", "naive"} :
          \E run \in {injectFault(stages, fault)} :
          \E productLink \in {firstProductLink(html)} :
               IF run.threw \/ run.value # <<>>
               THEN /\ sHtml' = html
                    /\ sStages' = run.stages
                    /\ sRet' = catchAll(run)
                    /\ pc' = "s_done"
                    /\ UNCHANGED fetches
               ELSE IF productLink # <<>>
               THEN /\ sHtml' = NoDocument
                    /\ sStages' = Append(run.stages,
                                          [stage |-> "product", out |-> <<>>, threw |-> FALSE,
                                           links |-> productLinks(html)])
                    /\ sRet' = sRet
                    /\ StartProduct(PrisjaktOrigin \o productLink)
               ELSE /\ sHtml' = html
                    /\ sStages' = run.stages
                    /\ sRet' = catchAll([threw |-> FALSE, value |-> <<>>])
                    /\ pc' = "s_done"
                    /\ UNCHANGED fetches
    /\ UNCHANGED <<availVars, dedupeVars, apiVars, route, entry, arg, pHtml, pStages, pRet, pageVars>>

\* scrapePrisjaktProduct settled inside scrapePrisjaktSearch:
\* return filterPrisjaktStore(productsFromProductPage), a rejection caught
SearchResume ==
    /\ pc = "p_done"
    /\ entry = "search"
    /\ sRet' = catchAll([threw |-> pRet.outcome = "rejected",
                         value |-> filterPrisjaktStore(pRet.value)])
    /\ sStages' = [sStages EXCEPT ![Len(sStages)].out = filterPrisjaktStore(pRet.value)]
    /\ pc' = "s_done"
    /\ UNCHANGED <<availVars, dedupeVars, apiVars, route, entry, arg, fetches, sHtml, pHtml, pStages, pRet, pageVars>>

\* the call has returned to its caller
Done == (entry = "product" /\ pc = "p_done") \/ (entry = "search" /\ pc = "s_done")
\* how it ended
Ret == IF entry = "product" THEN pRet ELSE sRet

(***************************************************************************)
(* dedupeProducts on its own                                               *)
(***************************************************************************)
MaxDedupeLen == 3

DedupeOffer(name, store, storeUrl, price) ==
    [id |-> storeUrl, name |-> name, price |-> Num(price), currency |-> SEK,
     store |-> store, storeUrl |-> storeUrl, availability |-> in_stock]

\* offers given to dedupeProducts: one offer at two prices, two offers whose
\* name, store and storeUrl differ but join to one key, an offer of its own
DedupeOffers == {
    DedupeOffer(<<"F","u","r","y">>, <<"P","r","o","s","h","o","p">>, <<"h","t","t","p","s",":","/","/","s","h","o","p",".","e","x","a","m","p","l","e","/","a">>, 10000),
    DedupeOffer(<<"F","u","r","y">>, <<"P","r","o","s","h","o","p">>, <<"h","t","t","p","s",":","/","/","s","h","o","p",".","e","x","a","m","p","l","e","/","a">>, 9000),
    DedupeOffer(<<"F","u","r","y","|","P","r","o">>, <<"s","h","o","p">>, <<"u">>, 8000),
    DedupeOffer(<<"F","u","r","y">>, <<"P","r","o","|","s","h","o","p">>, <<"u">>, 7000),
    DedupeOffer(<<"K","i","t">>, <<"I","n","e","t">>, <<>>, 6000) }

DedupeInputs == SeqsUpTo(DedupeOffers, MaxDedupeLen)

DedupeIdle == dedupeIn = <<>> /\ dedupeOut = <<>>

\* dedupeProducts is called on dedupeIn, and then on what it returned
dedupeProductsCall ==
    /\ Len(dedupeOut) < 2
    /\ dedupeOut' = Append(dedupeOut,
                           dedupeProducts(IF dedupeOut = <<>> THEN dedupeIn
                                          ELSE dedupeOut[Len(dedupeOut)]))
    /\ UNCHANGED <<dedupeIn, availVars, scrapeVars, apiVars, route, pageVars>>

(***************************************************************************)
(* The official-API client (lib/prisjakt-api).  cache is a function from   *)
(* cache keys to entries [data, timestamp, ttl].  A call of searchRAM or   *)
(* searchRAMBySpecs is a record                                            *)
(*   [pc, fn, apiKey, key, query, at, cached, hit, answer, body, result]   *)
(* pc: "idle", at `await fetch`, at `await response.json()`, "done";       *)
(* apiKey: the key of the instance; at: Date.now() at the cache check;    *)
(* cached: what cache.get returned; answer, body: what the request was     *)
(* answered with; result: the list returned.                               *)
(***************************************************************************)
\* ttl: 3600000 // 1 hour in milliseconds
Ttl == 3600000

\* the value false
False == <<"false-value">>
\* cache.get found nothing
NoEntry == [data |-> <<>>, timestamp |-> -1, ttl |-> 0]
\* no request was issued, no body read
NoAnswer == "none"
NoBody == [t |-> "none"]

EmptyCache == [k \in {} |-> NoEntry]

\* `ram_${moduleNumber}`
ramKey(moduleNumber) == <<"r","a","m","_">> \o moduleNumber
\* `ram_specs_${vendor}_${size}_${speed}`
specsKey(vendor, size, speed) ==
    <<"r","a","m","_","s","p","e","c","s","_">> \o vendor \o <<"_">> \o size \o <<"_">> \o speed
\* `${vendor} ${size} DDR5 ${speed}`
specsQuery(vendor, size, speed) ==
    vendor \o <<" ">> \o size \o <<" ","D","D","R","5"," ">> \o speed

\* this.cache.get(cacheKey)
cacheGet(c, key) == IF key \in DOMAIN c THEN c[key] ELSE NoEntry

\* a faulty variant of cacheSet: the entries of the other keys are lost
cacheSetAlone(c, key, e) == [k \in {key} |-> e]

\* a faulty variant of cacheSet: a key that is present keeps its entry
cacheSetIfAbsent(c, key, e) ==
    [k \in DOMAIN c \cup {key} |-> IF k \in DOMAIN c THEN c[k] ELSE e]

\* this.cache.set(cacheKey, entry)
cacheSet(c, key, e) ==
    [k \in DOMAIN c \cup {key} |-> IF k = key THEN e ELSE c[k]]

\* a faulty variant of isFresh: an entry of exactly ttl age still counts
isFreshInclusive(cached, t) ==
    cached # NoEntry /\ t - cached.timestamp <= cached.ttl

\* cached && Date.now() - cached.timestamp < cached.ttl
isFresh(cached, t) ==
    cached # NoEntry /\ t - cached.timestamp < cached.ttl

\* the object built for one product of the response
apiOffer(product) ==
    [ id |-> product.id,
      name |-> product.name,
      price |-> product.price,
      currency |-> OrElse(product.currency, SEK),
      store |-> IF product.store.t = "object" THEN OrElse(product.store.name, Unknown)
                ELSE Unknown,
      storeUrl |-> IF product.store.t = "object" THEN OrElse(product.store.url, <<>>)
                   ELSE <<>>,
      availability |-> OrElse(product.availability, False) ]

\* a faulty variant of mapProducts: a body that cannot be mapped counts as
\* an empty list of products
mapProductsLenient(body) ==
    IF body.t \in {"null", "no-products"} THEN [threw |-> FALSE, value |-> <<>>]
    ELSE IF \E i \in 1..Len(body.products) : body.products[i].t = "null"
    THEN [threw |-> FALSE, value |-> <<>>]
    ELSE [threw |-> FALSE,
          value |-> [i \in 1..Len(body.products) |-> apiOffer(body.products[i])]]

\* data.products?.map(...) || []: [threw, value].  Reading products of null
\* and reading a property of a null product throw
mapProducts(body) ==
    IF body.t = "null" THEN [threw |-> TRUE, value |-> <<>>]
    ELSE IF body.t = "no-products" THEN [threw |-> FALSE, value |-> <<>>]
    ELSE IF \E i \in 1..Len(body.products) : body.products[i].t = "null"
    THEN [threw |-> TRUE, value |-> <<>>]
    ELSE [threw |-> FALSE,
          value |-> [i \in 1..Len(body.products) |-> apiOffer(body.products[i])]]

\* products of a response: all fields present with an upstream availability
\* word, the store and the optional fields missing, a canonical
\* availability, a null element
ApiProducts == {
    [t |-> "object", id |-> <<"1">>, name |-> <<"F","u","r","y"," ","1","6","G","B">>, price |-> Num(129900),
     currency |-> Undefined, store |-> [t |-> "object", name |-> <<"I","n","e","t">>,
                                        url |-> <<"h","t","t","p","s",":","/","/","i","n","e","t",".","e","x","a","m","p","l","e","/","1">>],
     availability |-> <<"I","n","S","t","o","c","k">>],
    [t |-> "object", id |-> <<"2">>, name |-> <<"F","u","r","y"," ","1","6","G","B">>, price |-> Num(119900),
     currency |-> <<"E","U","R">>, store |-> [t |-> "absent"], availability |-> Undefined],
    [t |-> "object", id |-> <<"3">>, name |-> <<"K","i","t">>, price |-> Num(99900),
     currency |-> <<"S","E","K">>, store |-> [t |-> "object", name |-> Undefined, url |-> Undefined],
     availability |-> <<"i","n","_","s","t","o","c","k">>] }

\* what response.json() gives: it rejects, null, an object without
\* products, an object with products (one of them may be null)
ApiBodies ==
    { [t |-> "unparsable"], [t |-> "null"], [t |-> "no-products"] }
    \cup {[t |-> "object", products |-> <<p>>] : p \in {x \in ApiProducts : x.id = <<"3">>}}
    \cup {[t |-> "object", products |-> <<p, [t |-> "null"]>>] :
             p \in {x \in ApiProducts : x.id = <<"1">>}}
    \cup {[t |-> "object", products |-> <<p, q>>] :
             p \in {x \in ApiProducts : x.id = <<"1">>},
             q \in {x \in ApiProducts : x.id = <<"2">>}}

\* the callers that may have a call running at the same time, each with an
\* instance of its own, and the calls they make in all
Callers == {1, 2}
MaxCalls == 3

ApiKeys == {<<"k","e","y","-","A">>, <<"k","e","y","-","B">>}
\* new PrisjaktAPI(apiKey) of each caller
ApiKeyOf == <<<<"k","e","y","-","A">>, <<"k","e","y","-","B">>>>
\* arguments of searchRAM, the second one spelled like a specs key
ModuleArgs == {<<"K","F","5","5","6","C","4","0">>, <<"s","p","e","c","s","_","K","i","n","g","s","t","o","n","_","1","6","G","B","_","6","0","0","0">>}
\* arguments of searchRAMBySpecs
SpecsArgs == {<<<<"K","i","n","g","s","t","o","n">>, <<"1","6","G","B">>, <<"6","0","0","0">>>>}

\* the times Date.now() is read at
Times == {0, Ttl - 1, Ttl}

NoLookup ==
    [pc |-> "idle", fn |-> "none", apiKey |-> <<>>, key |-> <<>>, query |-> <<>>,
     at |-> 0, cached |-> NoEntry, hit |-> FALSE,
     answer |-> NoAnswer, body |-> NoBody, result |-> <<>>, calls |-> 0]

\* the cache was not changed yet
NoChange == [op |-> "none", key |-> <<>>, by |-> 0, call |-> 0, at |-> 0]

ApiIdle ==
    /\ cache = EmptyCache /\ now = 0 /\ lastChange = NoChange
    /\ lookups = [p \in Callers |-> NoLookup]

\* a faulty variant of StartLookup: the cache key holds the API key of the
\* instance
StartLookupPerApiKey(p, fn, apiKey, key, query) ==
    LET cached == cacheGet(cache, apiKey \o <<"_">> \o key)
        hit == isFresh(cached, now)
    IN lookups' = [lookups EXCEPT ![p] =
           [pc |-> IF hit THEN "done" ELSE "fetch",
            fn |-> fn, apiKey |-> apiKey, key |-> apiKey \o <<"_">> \o key, query |-> query,
            at |-> now, cached |-> cached, hit |-> hit,
            answer |-> IF hit THEN NoAnswer ELSE "pending", body |-> NoBody,
            result |-> IF hit THEN cached.data ELSE <<>>,
            calls |-> lookups[p].calls + 1]]

\* the method runs from its first line to the return of cached.data or to
\* `await fetch(...)`
StartLookup(p, fn, apiKey, key, query) ==
    LET cached == cacheGet(cache, key)
        hit == isFresh(cached, now)
    IN lookups' = [lookups EXCEPT ![p] =
           [pc |-> IF hit THEN "done" ELSE "fetch",
            fn |-> fn, apiKey |-> apiKey, key |-> key, query |-> query,
            at |-> now, cached |-> cached, hit |-> hit,
            answer |-> IF hit THEN NoAnswer ELSE "pending", body |-> NoBody,
            result |-> IF hit THEN cached.data ELSE <<>>,
            calls |-> lookups[p].calls + 1]]

\* the calls made so far
CallsMade == lookups[1].calls + lookups[2].calls

\* a caller invokes searchRAM on its instance
searchRAMCall(p) ==
    /\ lookups[p].pc \in {"idle", "done"}
    /\ CallsMade < MaxCalls
    /\ \E moduleNumber \in ModuleArgs :
           StartLookup(p, "searchRAM", ApiKeyOf[p], ramKey(moduleNumber), moduleNumber)
    /\ UNCHANGED <<cache, now, lastChange, availVars, scrapeVars, dedupeVars, route, pageVars>>

\* a caller invokes searchRAMBySpecs
searchRAMBySpecsCall(p) ==
    /\ lookups[p].pc \in {"idle", "done"}
    /\ CallsMade < MaxCalls
    /\ \E a \in SpecsArgs :
           StartLookup(p, "searchRAMBySpecs", ApiKeyOf[p],
                       specsKey(a[1], a[2], a[3]), specsQuery(a[1], a[2], a[3]))
    /\ UNCHANGED <<cache, now, lastChange, availVars, scrapeVars, dedupeVars, route, pageVars>>

\* the fetch of a lookup settles: a rejection and a status outside 2xx end
\* in the catch, which returns []
LookupResponse(p) ==
    /\ lookups[p].pc = "fetch"
    /\ \E a \in Answers :
           lookups' = [lookups EXCEPT ![p].answer = a,
                                      ![p].pc = IF resOk(a) THEN "json" ELSE "done"]
    /\ UNCHANGED <<cache, now, lastChange, availVars, scrapeVars, dedupeVars, route, pageVars>>

\* response.json() settles and the method runs to its return: the products
\* are mapped, the entry is written, the list is returned; an exception on
\* the way returns [] and writes nothing
LookupBody(p) ==
    /\ lookups[p].pc = "json"
    /\ \E body \in ApiBodies :
       \E m \in {IF body.t = "unparsable" THEN [threw |-> TRUE, value |-> <<>>]
                 ELSE mapProducts(body)} :
           /\ lookups' = [lookups EXCEPT ![p].body = body, ![p].pc = "done",
                                         ![p].result = m.value]
           /\ IF m.threw
              THEN UNCHANGED <<cache, lastChange>>
              ELSE /\ cache' = cacheSet(cache, lookups[p].key,
                                        [data |-> m.value, timestamp |-> now, ttl |-> Ttl])
                   /\ lastChange' = [op |-> "set", key |-> lookups[p].key,
                                     by |-> p, call |-> lookups[p].calls, at |-> now]
    /\ UNCHANGED <<now, availVars, scrapeVars, dedupeVars, route, pageVars>>

\* clearCache(): this.cache.clear()
clearCache ==
    /\ cache' = EmptyCache
    /\ lastChange' = [op |-> "clear", key |-> <<>>, by |-> 0, call |-> 0, at |-> now]
    /\ UNCHANGED <<now, lookups, availVars, scrapeVars, dedupeVars, route, pageVars>>

\* time passes
Tick ==
    /\ \E t \in Times : t > now /\ now' = t
    /\ UNCHANGED <<cache, lookups, lastChange, availVars, scrapeVars, dedupeVars, route, pageVars>>

(***************************************************************************)
(* The API route (app/api/prisjakt/search/route.ts).  The request is a     *)
(* record [pc, moduleNumber, apiKey, query, products, urls, response]:     *)
(* pc is the await the handler stands at, query the cleaned module number  *)
(* given to scrapePrisjaktSearch, products what that call returned, urls   *)
(* the requests that call issued, response [status, products].             *)
(***************************************************************************)
\* the length of the match of /\s+ver\s+[\d.]+/i at the start of s, 0
\* without one
versionMatchLen(s) ==
    LET Run(from, S) ==
            IF \E j \in from..Len(s) : s[j] \notin S
            THEN (CHOOSE j \in from..Len(s) :
                      s[j] \notin S /\ \A k \in from..(j - 1) : s[k] \in S) - from
            ELSE Len(s) - from + 1
        w1 == Run(1, Whitespace)
        w2 == Run(w1 + 4, Whitespace)
        d == Run(w1 + 4 + w2, Digits \cup {"."})
    IN IF /\ w1 >= 1
          /\ Len(s) >= w1 + 3
          /\ toLowerCase(SubSeq(s, w1 + 1, w1 + 3)) = <<"v","e","r">>
          /\ w2 >= 1 /\ d >= 1
       THEN w1 + 3 + w2 + d
       ELSE 0

RECURSIVE removeVersions(_)
\* name.replace(/\s+ver\s+[\d.]+/gi, ''): one pass from left to right
removeVersions(s) ==
    IF s = <<>> THEN s
    ELSE IF versionMatchLen(s) > 0
    THEN removeVersions(SubSeq(s, versionMatchLen(s) + 1, Len(s)))
    ELSE <<s[1]>> \o removeVersions(Tail(s))

cleanProductName(name) == trim(removeVersions(name))

\* what request.json() gives: moduleNumber and apiKey of the body, Undefined
\* when missing
RequestBody(moduleNumber, apiKey) ==
    [t |-> "object", moduleNumber |-> moduleNumber, apiKey |-> apiKey]

\* module numbers of a request: with one and with two version suffixes,
\* missing, empty, a number
ModuleNumbers == {
    <<"C","M","H","4","8","G","X","5"," ","v","e","r"," ","5",".","5","3",".","1","3">>,
    <<"K","F","5"," ","v","e","r"," ","V","E","R"," ","1"," ","2",".">>,
    Undefined, <<>>, NonString }

RequestBodies ==
    {[t |-> "unparsable"]}
    \cup {RequestBody(m, k) : m \in ModuleNumbers, k \in {Undefined} \cup ApiKeys}

NoResponse == [status |-> 0, products |-> <<>>]
RouteIdle ==
    route = [pc |-> "idle", moduleNumber |-> Undefined, apiKey |-> Undefined,
             query |-> Undefined, products |-> <<>>, urls |-> <<>>,
             response |-> NoResponse]

\* NextResponse.json({ products }), or { error } with a status
Respond(status, products) ==
    route' = [route EXCEPT !.pc = "responded",
                           !.response = [status |-> status, products |-> products]]

\* a request arrives: POST runs up to `await request.json()`
POST ==
    /\ route.pc = "idle" /\ entry = "none"
    /\ route' = [route EXCEPT !.pc = "json"]
    /\ UNCHANGED <<availVars, scrapeVars, dedupeVars, apiVars, pageVars>>

\* request.json() settles and the handler runs to its next await or to a
\* response: 500 when the body does not parse or cleanProductName throws,
\* 400 without a module number, else scrapePrisjaktSearch is called with
\* the cleaned module number or, with an apiKey, searchRAM with the module
\* number as it came
PostBody ==
    /\ route.pc = "json"
    /\ \E b \in RequestBodies :
       IF b.t = "unparsable"
       THEN Respond(500, <<>>) /\ UNCHANGED <<scrapeVars, apiVars>>
       ELSE IF ~Truthy(b.moduleNumber)
       THEN Respond(400, <<>>) /\ UNCHANGED <<scrapeVars, apiVars>>
       ELSE IF b.moduleNumber = NonString
       THEN Respond(500, <<>>) /\ UNCHANGED <<scrapeVars, apiVars>>
       ELSE IF ~Truthy(b.apiKey)
       THEN /\ route' = [route EXCEPT !.pc = "search", !.moduleNumber = b.moduleNumber,
                                      !.apiKey = b.apiKey,
                                      !.query = cleanProductName(b.moduleNumber)]
            /\ entry' = "search"
            /\ arg' = cleanProductName(b.moduleNumber)
            /\ fetches' = <<[url |-> searchUrl(cleanProductName(b.moduleNumber)),
                             answer |-> "pending"]>>
            /\ pc' = "s_fetch"
            /\ UNCHANGED <<sHtml, sStages, sRet, pHtml, pStages, pRet, apiVars>>
       ELSE /\ route' = [route EXCEPT !.pc = "api", !.moduleNumber = b.moduleNumber,
                                      !.apiKey = b.apiKey,
                                      !.query = cleanProductName(b.moduleNumber)]
            /\ StartLookup(1, "searchRAM", b.apiKey, ramKey(b.moduleNumber), b.moduleNumber)
            /\ UNCHANGED <<scrapeVars, cache, now, lastChange>>
    /\ UNCHANGED <<availVars, dedupeVars, pageVars>>

\* scrapePrisjaktSearch settled: one offer is refined by scrapePrisjaktProduct
\* on its storeUrl, which runs up to its fetch; any other list is the response
PostSearched ==
    /\ route.pc = "search" /\ entry = "search" /\ pc = "s_done"
    /\ IF Len(sRet.value) = 1
       THEN /\ route' = [route EXCEPT !.pc = "refine", !.products = sRet.value,
                             !.urls = [i \in 1..Len(fetches) |-> fetches[i].url]]
            /\ entry' = "product"
            /\ arg' = sRet.value[1].storeUrl
            /\ fetches' = <<[url |-> productUrl(sRet.value[1].storeUrl),
                             answer |-> "pending"]>>
            /\ pc' = "p_fetch"
            /\ sHtml' = NoDocument /\ sStages' = <<>> /\ sRet' = NotReturned
            /\ pHtml' = NoDocument /\ pStages' = <<>> /\ pRet' = NotReturned
       ELSE /\ route' = [route EXCEPT !.pc = "responded", !.products = sRet.value,
                             !.urls = [i \in 1..Len(fetches) |-> fetches[i].url],
                             !.response = [status |-> 200, products |-> sRet.value]]
            /\ UNCHANGED scrapeVars
    /\ UNCHANGED <<availVars, dedupeVars, apiVars, pageVars>>

\* a faulty variant of PostRefined: an empty refinement falls back to the
\* offer of the search
PostRefinedOrSearched ==
    /\ route.pc = "refine" /\ entry = "product" /\ pc = "p_done"
    /\ Respond(200, IF pRet.value = <<>> THEN route.products ELSE pRet.value)
    /\ UNCHANGED <<availVars, scrapeVars, dedupeVars, apiVars, pageVars>>

\* the refining scrapePrisjaktProduct settled: its list is the response
PostRefined ==
    /\ route.pc = "refine" /\ entry = "product" /\ pc = "p_done"
    /\ Respond(200, pRet.value)
    /\ UNCHANGED <<availVars, scrapeVars, dedupeVars, apiVars, pageVars>>

\* api.searchRAM settled: its list is the response
PostLookedUp ==
    /\ route.pc = "api" /\ lookups[1].pc = "done"
    /\ Respond(200, lookups[1].result)
    /\ UNCHANGED <<availVars, scrapeVars, dedupeVars, apiVars, pageVars>>

(***************************************************************************)
(* The page (app/page.tsx).  page is                                       *)
(*   [pc, modulesToRefresh, i, isLoading, ramModules, success, error,      *)
(*    returned, events]                                                    *)
(* pc: "idle", at `await fetch` or at `await res.json()` of serverSearch   *)
(* inside the loop of handleRefreshAllPrices, "done"; i: the loop index,   *)
(* counted from 1; ramModules: the rows after the updaters passed to       *)
(* setRamModules so far are applied, in the order of the calls; returned:  *)
(* how the last serverSearch ended; events: the calls of serverSearch and  *)
(* of setRamModules made by the batch, in order.                           *)
(***************************************************************************)
MaxBatch == 3

NotFound == <<"N","o","t"," ","F","o","u","n","d">>

\* the price of a row: price?: number
NoPrice == [t |-> "undefined"]
PriceOf(n) == [t |-> "number", v |-> n]

\* a row as handleDataParsed builds it
Row(module) ==
    [module |-> module, price |-> NoPrice, currency |-> Undefined,
     availability |-> Undefined, store |-> Undefined, storeUrl |-> Undefined,
     lastUpdated |-> 0]

\* the tables loaded from a CSV file: two modules, and one of them twice
Tables == {
    <<Row(<<"K","F","5","5","6","C","4","0">>), Row(<<"C","M","H","4","8","G","X","5">>)>>,
    <<Row(<<"K","F","5","5","6","C","4","0">>), Row(<<"C","M","H","4","8","G","X","5">>), Row(<<"K","F","5","5","6","C","4","0">>)>> }

\* the lists handleRefreshAllPrices is called with: rows of the table
Batches(rows) == SeqsUpTo({rows[k].module : k \in 1..Len(rows)}, MaxBatch)

PageOffer(store, price, availability) ==
    [t |-> "object", price |-> Num(price), currency |-> SEK, store |-> store,
     storeUrl |-> <<"h","t","t","p","s",":","/","/","s","h","o","p",".","e","x","a","m","p","l","e","/">> \o store, availability |-> availability]

\* what res.json() of the route's response gives: it rejects, null, an
\* object without products, and objects with a list of products: empty,
\* one offer, the cheapest offer not in stock, two offers in stock at one
\* price, a null element
PageBodies == {
    [t |-> "unparsable"], [t |-> "null"], [t |-> "no-products"],
    [t |-> "object", products |-> <<>>],
    [t |-> "object", products |-> <<PageOffer(<<"I","n","e","t">>, 9000, not_available)>>],
    [t |-> "object", products |-> <<PageOffer(<<"I","n","e","t">>, 9000, incoming),
                                    PageOffer(<<"P","r","o","s","h","o","p">>, 12000, in_stock)>>],
    [t |-> "object", products |-> <<PageOffer(<<"P","r","o","s","h","o","p">>, 12000, in_stock),
                                    PageOffer(<<"W","e","b","h","a","l","l","e","n">>, 12000, in_stock)>>],
    [t |-> "object", products |-> <<PageOffer(<<"I","n","e","t">>, 9000, in_stock), [t |-> "null"]>>] }

\* serverSearch after `await res.json()`: (data.products || []);
\* [threw, value].  Reading products of null throws
serverProducts(body) ==
    IF body.t \in {"unparsable", "null"} THEN [threw |-> TRUE, value |-> <<>>]
    ELSE IF body.t = "no-products" THEN [threw |-> FALSE, value |-> <<>>]
    ELSE [threw |-> FALSE, value |-> body.products]

\* products.filter(p => p.availability === 'in_stock')
\*     .sort((a, b) => a.price - b.price)[0] || products[0]
\* [threw, value]; reading availability of a null element throws; the sort
\* is stable
bestProduct(products) ==
    IF \E k \in 1..Len(products) : products[k].t = "null"
    THEN [threw |-> TRUE, value |-> [t |-> "null"]]
    ELSE LET inStock == SelectSeq(products, LAMBDA p : p.availability = in_stock)
             cheapest == {k \in 1..Len(inStock) :
                             \A j \in 1..Len(inStock) : inStock[k].price[1] <= inStock[j].price[1]}
         IN [threw |-> FALSE,
             value |-> IF inStock = <<>> THEN products[1]
                       ELSE inStock[CHOOSE k \in cheapest : \A j \in cheapest : k <= j]]

\* prev.map(m => m.module === module.module ? {...m, price, ...} : m)
withPrice(rows, module, best, date) ==
    [k \in 1..Len(rows) |->
        IF rows[k].module = module
        THEN [rows[k] EXCEPT !.price = PriceOf(best.price), !.currency = best.currency,
                             !.availability = best.availability, !.store = best.store,
                             !.storeUrl = best.storeUrl, !.lastUpdated = date]
        ELSE rows[k]]

\* prev.map(m => m.module === module.module
\*     ? {...m, price: undefined, store: 'Not Found', lastUpdated: new Date()} : m)
withNotFound(rows, module, date) ==
    [k \in 1..Len(rows) |->
        IF rows[k].module = module
        THEN [rows[k] EXCEPT !.price = NoPrice, !.store = NotFound, !.lastUpdated = date]
        ELSE rows[k]]

\* a faulty variant of rowsAfter: a lookup that failed leaves the rows as
\* they are
rowsAfterFoundOnly(rows, module, returned, date) ==
    IF returned.threw \/ returned.value = <<>> \/ bestProduct(returned.value).threw
    THEN rows
    ELSE withPrice(rows, module, bestProduct(returned.value).value, date)

\* the rows after the body of the loop ran for module with what
\* serverSearch returned or threw
rowsAfter(rows, module, returned, date) ==
    IF returned.threw THEN withNotFound(rows, module, date)
    ELSE IF returned.value = <<>> THEN withNotFound(rows, module, date)
    ELSE IF bestProduct(returned.value).threw THEN withNotFound(rows, module, date)
    ELSE withPrice(rows, module, bestProduct(returned.value).value, date)

NoPage ==
    [pc |-> "idle", modulesToRefresh |-> <<>>, i |-> 0, isLoading |-> FALSE,
     ramModules |-> <<>>, success |-> -1, error |-> FALSE,
     returned |-> [threw |-> FALSE, value |-> <<>>], events |-> <<>>]

PageIdle == page = NoPage

\* handleRefreshAllPrices(modulesToRefresh) up to the first
\* `await fetch(...)` of serverSearch, or to its end when the list is empty
handleRefreshAllPricesCall ==
    /\ page.pc = "idle"
    /\ \E list \in Batches(page.ramModules) :
           page' = IF list = <<>>
                   THEN [page EXCEPT !.pc = "done", !.isLoading = FALSE, !.success = 0]
                   ELSE [page EXCEPT !.pc = "fetch", !.modulesToRefresh = list, !.i = 1,
                                     !.isLoading = TRUE,
                                     !.events = <<[ev |-> "serverSearch", i |-> 1]>>]
    /\ UNCHANGED <<availVars, scrapeVars, dedupeVars, apiVars, route>>

\* serverSearch ended with returned: the rest of the loop body runs, then
\* the next round up to its `await fetch(...)`, or the end of the handler
Settled(returned) ==
    LET module == page.modulesToRefresh[page.i]
        date == Len(page.events) + 1
        rows == rowsAfter(page.ramModules, module, returned, date)
        set == Append(page.events, [ev |-> "setRamModules", i |-> page.i])
    IN page' = IF page.i < Len(page.modulesToRefresh)
               THEN [page EXCEPT !.ramModules = rows, !.returned = returned,
                                 !.i = page.i + 1, !.pc = "fetch",
                                 !.events = Append(set, [ev |-> "serverSearch", i |-> page.i + 1])]
               ELSE [page EXCEPT !.ramModules = rows, !.returned = returned,
                                 !.pc = "done", !.events = set,
                                 !.success = Len(page.modulesToRefresh),
                                 !.isLoading = FALSE]

\* the fetch of serverSearch settles: a rejection is caught by the loop
\* body, a response that is not ok returns []
RefreshResponse ==
    /\ page.pc = "fetch"
    /\ \E a \in Answers :
           IF a = "network-error" THEN Settled([threw |-> TRUE, value |-> <<>>])
           ELSE IF ~resOk(a) THEN Settled([threw |-> FALSE, value |-> <<>>])
           ELSE page' = [page EXCEPT !.pc = "json"]
    /\ UNCHANGED <<availVars, scrapeVars, dedupeVars, apiVars, route>>

\* res.json() of serverSearch settles
RefreshBody ==
    /\ page.pc = "json"
    /\ \E body \in PageBodies : Settled(serverProducts(body))
    /\ UNCHANGED <<availVars, scrapeVars, dedupeVars, apiVars, route>>
(***************************************************************************)
(* Specifications                                                          *)
(***************************************************************************)
\* toAvailability on its own
InitAvail ==
    /\ availIn \in AvailInputs /\ availOut = NotCalled
    /\ ScrapeIdle /\ DedupeIdle /\ RouteIdle /\ ApiIdle /\ PageIdle

NextAvail == toAvailabilityCall

SpecAvail == InitAvail /\ [][NextAvail]_vars

\* dedupeProducts on its own
InitDedupe ==
    /\ dedupeIn \in DedupeInputs /\ dedupeOut = <<>>
    /\ availIn = NotCalled /\ availOut = NotCalled
    /\ ScrapeIdle /\ RouteIdle /\ ApiIdle /\ PageIdle

NextDedupe == dedupeProductsCall

SpecDedupe == InitDedupe /\ [][NextDedupe]_vars

Init ==
    /\ availIn = NotCalled /\ availOut = NotCalled
    /\ ScrapeIdle /\ DedupeIdle /\ RouteIdle /\ ApiIdle /\ PageIdle

\* the official-API client with its callers, the clock and clearCache
NextApi ==
    \/ \E p \in Callers : searchRAMCall(p)
    \/ \E p \in Callers : searchRAMBySpecsCall(p)
    \/ \E p \in Callers : LookupResponse(p)
    \/ \E p \in Callers : LookupBody(p)
    \/ clearCache
    \/ Tick

SpecApi == Init /\ [][NextApi]_vars

\* the scrape entry points called directly, or by one request to the route
Next ==
    \/ ProductCall
    \/ ProductResponse
    \/ ProductBody
    \/ SearchCall
    \/ SearchResponse
    \/ SearchBody
    \/ SearchResume
    \/ POST
    \/ PostBody
    \/ PostSearched
    \/ PostRefined
    \/ PostLookedUp
    \/ \E p \in Callers : LookupResponse(p)
    \/ \E p \in Callers : LookupBody(p)

Spec == Init /\ [][Next]_vars


\* the batch refresh of the page on a loaded table
InitRefresh ==
    /\ availIn = NotCalled /\ availOut = NotCalled
    /\ ScrapeIdle /\ DedupeIdle /\ RouteIdle /\ ApiIdle
    /\ \E table \in Tables : page = [NoPage EXCEPT !.ramModules = table]

NextRefresh ==
    \/ handleRefreshAllPricesCall
    \/ RefreshResponse
    \/ RefreshBody

\* a request that was issued is answered, and a body that arrives is read
SpecRefresh ==
    /\ InitRefresh /\ [][NextRefresh]_vars
    /\ WF_vars(RefreshResponse) /\ WF_vars(RefreshBody)
\* text s holds the word w at some position, letter case ignored
HoldsWord(s, w) ==
    \E i \in 0..(Len(s) - Len(w)) :
        \A k \in 1..Len(w) : LowerChar(s[i + k]) = w[k]

SaysInStock(s) == \E w \in InStockTokens : HoldsWord(s, w)

SaysIncoming(s) == \E w \in IncomingTokens : HoldsWord(s, w)

\* C8: toAvailability is stable on canonical values: toAvailability(v) = v
\* for each v of in_stock, incoming, not_available.
C8_CanonicalStable ==
    (availOut # NotCalled /\ availIn \in AvailabilityStatus) => availOut = availIn

\* C9: toAvailability is total on strings and absent input: it returns
\* exactly one of the three statuses, in_stock when the input holds an
\* in-stock/available word in any letter case, otherwise incoming when it
\* holds a preorder/backorder word, otherwise (absent input included)
\* not_available.
C9_TotalMapping ==
    availOut # NotCalled =>
        /\ availOut \in AvailabilityStatus
        /\ availOut = (IF availIn = Undefined THEN not_available
                       ELSE IF SaysInStock(availIn) THEN in_stock
                       ELSE IF SaysIncoming(availIn) THEN incoming
                       ELSE not_available)

\* C9 witness: a mixed-case schema.org preorder name was mapped to incoming
C9_Witness ==
    /\ availOut = incoming
    /\ availIn # Undefined
    /\ ~SaysInStock(availIn)
    /\ \A w \in IncomingTokens : ~includes(availIn, w)

(***************************************************************************)
(* Claims about the scrape entry points                                    *)
(***************************************************************************)
\* the elements of a list
Elems(list) == {list[i] : i \in 1..Len(list)}

\* the first fetch of the call got a status outside 2xx, or the product fetch did
NonOkAt(i) == i <= Len(fetches) /\ fetches[i].answer \in {"status-404", "status-500"}

\* a stage was left by an exception in one of the two functions
SomeStageThrew == \E e \in Elems(sStages) \cup Elems(pStages) : e.threw

\* C1: scrapeSearch and scrapeProduct never throw: whatever the network
\* answers and whichever extractor raises an exception, a call that has
\* ended has returned a list of offers, not rejected.
C1_NeverThrows ==
    /\ pRet # NotReturned => pRet.outcome = "returned"
    /\ sRet # NotReturned => sRet.outcome = "returned"
    /\ \A i \in 1..Len(fetches) : fetches[i].answer = "network-error" =>
           /\ pc \in {"p_done", "s_done"}
           /\ (IF pRet # NotReturned THEN pRet ELSE sRet) = [outcome |-> "returned", value |-> <<>>]
    /\ (Done /\ SomeStageThrew) => Ret = [outcome |-> "returned", value |-> <<>>]

\* C1 witness: a search call whose structured-data stage raised an exception
\* has returned the empty list
C1_Witness ==
    /\ Done /\ entry = "search"
    /\ \E e \in Elems(sStages) : e.threw /\ e.stage = "jsonld"
    /\ sRet.value = <<>>

\* C2: a fetch answered with a status outside 2xx makes the entry point
\* return exactly the empty list, and no extractor is run on that response:
\* for the search page no stage is entered and no further fetch is made, for
\* a product page (fetched by scrapeProduct itself or as the fallback of
\* scrapeSearch) no product stage is entered.
C2_NonOkIsEmpty ==
    /\ (entry = "search" /\ NonOkAt(1)) =>
           /\ sStages = <<>> /\ sHtml = NoDocument /\ Len(fetches) = 1
           /\ pc = "s_done" /\ sRet = [outcome |-> "returned", value |-> <<>>]
    /\ (entry = "search" /\ NonOkAt(2)) =>
           /\ pStages = <<>> /\ pHtml = NoDocument
           /\ pRet = [outcome |-> "returned", value |-> <<>>]
           /\ Done => sRet = [outcome |-> "returned", value |-> <<>>]
    /\ (entry = "product" /\ NonOkAt(1)) =>
           /\ pStages = <<>> /\ pHtml = NoDocument
           /\ Done /\ pRet = [outcome |-> "returned", value |-> <<>>]

\* C2 witness: the product page scrapeSearch fell back to answered 500 and
\* the search call has returned
C2_Witness ==
    /\ entry = "search" /\ Done
    /\ Len(fetches) = 2 /\ fetches[2].answer = "status-500"

\* an offer as the data model wants it
WellFormedOffer(o) ==
    /\ isFinite(o.price) /\ o.price[1] > 0
    /\ o.name # <<>>
    /\ o.store # <<>>
    /\ toLowerCase(o.store) # prisjakt

\* C3: every offer returned by scrapeSearch or scrapeProduct has a finite
\* price > 0, a non-empty name and a non-empty store that is not the host
\* brand name in any letter case.
C3_OffersWellFormed ==
    Done => \A o \in Elems(Ret.value) : WellFormedOffer(o)

SearchOrder == <<"primary", "jsonld", "naive", "product">>
ProductOrder == <<"jsonld", "offers", "heading">>

\* the stages entered are the first ones of order, each entered only after
\* all before it ended empty, and value is the output of the one that is not
\* empty, the empty list without one
FirstNonEmptyWins(stages, order, value) ==
    /\ Len(stages) <= Len(order)
    /\ \A i \in 1..Len(stages) : stages[i].stage = order[i]
    /\ \A i \in 1..(Len(stages) - 1) : stages[i].out = <<>> /\ ~stages[i].threw
    /\ value = (IF stages = <<>> THEN <<>> ELSE stages[Len(stages)].out)

\* C4: scrapeSearch enters its stages in the order primary card, structured
\* data, naive pattern and then, only when all three are empty after the
\* store filter, scrapeProduct on the first product-detail link of the page;
\* it returns the store-filtered output of the first stage whose filtered
\* output is not empty and enters no stage after that one.
C4_SearchStageOrder ==
    (entry = "search" /\ pc = "s_done") =>
        /\ FirstNonEmptyWins(sStages, SearchOrder, sRet.value)
        /\ \A i \in 1..Len(sStages) :
               IF sStages[i].stage = "product"
               THEN /\ sStages[i].links # <<>>
                    /\ Len(fetches) = 2
                    /\ fetches[2].url = PrisjaktOrigin \o Head(sStages[i].links)
                    /\ sStages[i].out = filterPrisjaktStore(pRet.value)
               ELSE TRUE
        /\ (Len(sStages) < 4 /\ fetches[1].answer = "status-200" /\ sHtml # NoDocument) =>
               /\ Len(fetches) = 1
               /\ sStages[1].threw \/
                      sStages[1].out = filterPrisjaktStore(extractPrimarySearchItems(sHtml))
               /\ (Len(sStages) = 3 /\ ~sStages[3].threw /\ sStages[3].out = <<>>) =>
                      productLinks(sHtml) = <<>>

\* C4 witness: the first three stages were empty, the page held two
\* product-detail links and the result came from the product page
C4_Witness ==
    /\ entry = "search" /\ pc = "s_done"
    /\ Len(sStages) = 4
    /\ Len(sStages[4].links) = 2 /\ sStages[4].links[1] # sStages[4].links[2]
    /\ sRet.value # <<>>

\* the texts of a product page a price can stand in, in document order
PriceTexts(html) == <<html.lead>> \o [i \in 1..Len(html.offers) |-> html.offers[i].label]

OnePerStore(list) ==
    \A i, j \in 1..Len(list) :
        i # j => toLowerCase(list[i].store) # toLowerCase(list[j].store)

\* the go-to-shop anchors of a page that carry a usable store label and price
ShopOffers(html) ==
    {r \in Elems(html.offers) :
        /\ storeLabelOf(r) # <<>> /\ ~isNoiseLabel(storeLabelOf(r))
        /\ priceLabelMatch(r.label) # Undefined
        /\ ~badPrice(parsePrice(removeNbsp(priceLabelMatch(r.label))))}

\* every offer of the list carries the lowest price the page's go-to-shop
\* anchors of its store show
LowestOnPage(list, html) ==
    \A o \in Elems(list) :
        LET same == {r \in ShopOffers(html) :
                        toLowerCase(storeLabelOf(r)) = toLowerCase(o.store)}
        IN /\ same # {}
           /\ \A r \in same : o.price[1] <= parsePrice(removeNbsp(priceLabelMatch(r.label)))[1]
           /\ \E r \in same : o.price = parsePrice(removeNbsp(priceLabelMatch(r.label)))

\* C6 as stated: for every product-detail page scrapeProduct returns at most
\* one offer per store name, letter case ignored, at the lowest price among
\* the page's go-to-shop offers of that store.
C6_OnePerStoreAlways ==
    (entry = "product" /\ pc = "p_done" /\ pHtml # NoDocument) =>
        /\ OnePerStore(pRet.value)
        /\ (pHtml.offers # <<>> /\ pRet.value # <<>> /\ pRet.value[1].store # Prisjakt) =>
               LowestOnPage(pRet.value, pHtml)

\* C6 amended: when the structured-data stage yields nothing after the store
\* filter, scrapeProduct returns at most one offer per store name, letter
\* case ignored, and what the product-page offer extractor returns carries,
\* for each store, the lowest price among the page's go-to-shop offers of
\* that store.
C6_OnePerStoreFromPage ==
    (pc \in {"p_done", "s_done"} /\ pStages # <<>> /\ pStages[1].out = <<>>) =>
        /\ OnePerStore(pRet.value)
        /\ (Len(pStages) >= 2 /\ ~pStages[2].threw) =>
               /\ OnePerStore(pStages[2].out)
               /\ LowestOnPage(pStages[2].out, pHtml)

\* C6 witness: the page shows one store twice, in different letter case and
\* the cheaper offer second, and one offer was returned
C6_Witness ==
    /\ entry = "product" /\ pc = "p_done"
    /\ Len(pStages) = 2 /\ pRet.value = pStages[2].out
    /\ Len(pRet.value) = 1
    /\ Cardinality(ShopOffers(pHtml)) = 2
    /\ pRet.value[1].price = parsePrice(removeNbsp(priceLabelMatch(pHtml.offers[2].label)))
    /\ storeLabelOf(pHtml.offers[1]) # storeLabelOf(pHtml.offers[2])

\* C7: an offer of the product-page offer extractor is not_available when
\* the page carries the no-stock marker, whatever its icons; otherwise it is
\* in_stock when its anchor has the in-stock icon token, else incoming when
\* it has the incoming icon token, else not_available.
C7_OfferAvailability ==
    \A i \in 1..Len(pStages) :
        (pStages[i].stage = "offers" /\ ~pStages[i].threw) =>
            \A o \in Elems(pStages[i].out) :
                \E r \in ShopOffers(pHtml) :
                    /\ r.href = o.storeUrl
                    /\ storeLabelOf(r) = o.store
                    /\ o.availability =
                           (IF pHtml.marker THEN not_available
                            ELSE IF IconInStock \in r.icons THEN in_stock
                            ELSE IF IconIncoming \in r.icons THEN incoming
                            ELSE not_available)

\* C7 witness: an anchor with both the in-stock and the incoming icon gave
\* an in_stock offer on a page without the marker
C7_Witness ==
    /\ pc = "p_done" /\ Len(pStages) = 2 /\ ~pHtml.marker
    /\ \E o \in Elems(pStages[2].out) : \E r \in ShopOffers(pHtml) :
           /\ r.href = o.storeUrl
           /\ {IconInStock, IconIncoming} \subseteq r.icons
           /\ o.availability = in_stock

\* C10: scrapeProduct fetches an argument that starts with 'http' as it is,
\* and any other argument as https://www.prisjakt.nu/produkt.php?p=<d>, <d>
\* being the digits of the argument in their order.
C10_ProductUrl ==
    (entry = "product" /\ fetches # <<>>) =>
        /\ Len(fetches) = 1
        /\ fetches[1].url =
               (IF Len(arg) >= 4 /\ SubSeq(arg, 1, 4) = <<"h","t","t","p">> THEN arg
                ELSE <<"h","t","t","p","s",":","/","/","w","w","w",".","p","r","i","s","j","a","k","t",".","n","u","/","p","r","o","d","u","k","t",".","p","h","p","?","p","=">>
                         \o SelectSeq(arg, LAMBDA c : c \in Digits))

\* C10 witness: an id with other characters before, between and after its
\* digits was fetched
C10_Witness ==
    /\ entry = "product" /\ Len(fetches) = 1
    /\ fetches[1].url = <<"h","t","t","p","s",":","/","/","w","w","w",".","p","r","i","s","j","a","k","t",".","n","u","/","p","r","o","d","u","k","t",".","p","h","p","?","p","=","5","1","3","5","9","1","0">>
    /\ arg # <<"5","1","3","5","9","1","0">>

(***************************************************************************)
(* Claims about dedupeProducts                                             *)
(***************************************************************************)
\* C11: dedupe is idempotent and never grows its input: the list it returns
\* is not longer than its argument, and dedupe applied to that list returns
\* it unchanged.
C11_DedupeIdempotent ==
    /\ Len(dedupeOut) >= 1 => Len(dedupeOut[1]) <= Len(dedupeIn)
    /\ Len(dedupeOut) = 2 =>
           /\ dedupeOut[2] = dedupeOut[1]
           /\ Len(dedupeOut[2]) <= Len(dedupeOut[1])

\* C11 witness: a list of three offers with one key was cut to one offer,
\* and dedupe was applied to the result
C11_Witness ==
    /\ Len(dedupeIn) = 3 /\ Len(dedupeOut) = 2
    /\ Len(dedupeOut[1]) = 1
    /\ dedupeIn[2] # dedupeIn[1]

(***************************************************************************)
(* Claims about names, ids and requests of the scrape entry points         *)
(***************************************************************************)
\* the text holds a match of /\s+ver\s+[\d.]+/i
hasVersionSuffix(s) ==
    \E i \in 1..Len(s) : versionMatchLen(SubSeq(s, i, Len(s))) > 0

\* C12: no offer name returned by scrapeSearch holds a residual version
\* suffix: white space, 'ver' in any letter case, white space, digits and
\* dots.
C12_NamesWithoutVersion ==
    (entry = "search" /\ pc = "s_done") =>
        \A o \in Elems(sRet.value) : ~hasVersionSuffix(o.name)

\* the structured-data stages that ran to their end, of either entry point
JsonLdStages ==
    {e \in Elems(sStages) \cup Elems(pStages) : e.stage = "jsonld" /\ ~e.threw}

\* C13: the ids the structured-data extractor gives the offers of one
\* product are unique: two different offers extracted from one Product node
\* have different ids.
C13_IdsUniquePerProduct ==
    \A e \in JsonLdStages :
        \A i, j \in 1..Len(e.out) :
            (i # j /\ e.out[i].name = e.out[j].name) => e.out[i].id # e.out[j].id

\* C14: a scrape call issues at most two requests, one after the other, and
\* never one twice: scrapeProduct at most one; scrapeSearch the search page
\* and then, only after that was answered, at most one product page; a
\* request that fails is the last one of the call and the call returns the
\* empty list.
C14_SequentialFetches ==
    /\ Len(fetches) <= 2
    /\ entry = "product" => Len(fetches) <= 1
    /\ (entry = "search" /\ fetches # <<>>) => fetches[1].url = searchUrl(arg)
    /\ \A i \in 1..(Len(fetches) - 1) : fetches[i].answer = "status-200"
    /\ \A i, j \in 1..Len(fetches) : i # j => fetches[i].url # fetches[j].url
    /\ Len(fetches) = 2 =>
           /\ entry = "search"
           /\ sStages # <<>> /\ sStages[Len(sStages)].stage = "product"
    /\ \A i \in 1..Len(fetches) :
           fetches[i].answer \in {"network-error", "status-404", "status-500"} =>
               /\ i = Len(fetches)
               /\ pc \in {"p_done", "s_done"}
               /\ Done => Ret.value = <<>>
    /\ Done => \A i \in 1..Len(fetches) : fetches[i].answer # "pending"

\* C14 witness: scrapeSearch fetched the search page and then a product
\* page, that request failed, and the call returned the empty list
C14_Witness ==
    /\ entry = "search" /\ pc = "s_done" /\ route.pc = "idle"
    /\ Len(fetches) = 2
    /\ fetches[2].answer = "network-error"
    /\ sRet.value = <<>>

\* the url names the host www.prisjakt.nu
OnPrisjaktHost(url) == startsWith(url, PrisjaktOrigin \o <<"/">>)

\* C15: every request issued through the scrape entry points goes to the
\* host www.prisjakt.nu, the request of the refining scrapeProduct call of
\* the API route included.
C15_FixedHost ==
    /\ \A i \in 1..Len(fetches) : OnPrisjaktHost(fetches[i].url)
    /\ \A i \in 1..Len(route.urls) : OnPrisjaktHost(route.urls[i])

(***************************************************************************)
(* Claims about the official-API client                                    *)
(***************************************************************************)
\* the lookups that have returned
Returned == {p \in Callers : lookups[p].pc = "done"}

\* C16: every offer returned by searchRAM and searchRAMBySpecs has an
\* availability that is one of in_stock, incoming, not_available.
C16_ApiAvailability ==
    \A p \in Returned :
        \A o \in Elems(lookups[p].result) : o.availability \in AvailabilityStatus

\* what a lookup that issued a request returns: the products mapped from
\* the body of its own response, the empty list when the request or the
\* mapping failed
OwnResult(l) ==
    IF l.answer = "status-200" /\ l.body.t \in {"no-products", "object"}
          /\ ~mapProducts(l.body).threw
    THEN mapProducts(l.body).value
    ELSE <<>>

\* C17: a cache entry is stale exactly when now - timestamp >= ttl.  A call
\* of searchRAM or searchRAMBySpecs returns the cached data without a
\* request exactly when the cache holds an entry for its key with
\* now - timestamp < ttl; otherwise it issues a request, and what it returns
\* then is mapped from the response or empty, never the stale data.
C17_StaleExactly ==
    /\ [][\A p \in Callers :
            lookups'[p].calls # lookups[p].calls =>
                LET key == lookups'[p].key
                    stale == \/ key \notin DOMAIN cache
                             \/ now - cache[key].timestamp >= cache[key].ttl
                IN IF stale
                   THEN /\ lookups'[p].pc = "fetch"
                        /\ lookups'[p].answer = "pending"
                        /\ ~lookups'[p].hit
                   ELSE /\ lookups'[p].pc = "done"
                        /\ lookups'[p].answer = NoAnswer
                        /\ lookups'[p].hit
                        /\ lookups'[p].result = cache[key].data]_vars
    /\ [](\A p \in Returned :
            ~lookups[p].hit => lookups[p].result = OwnResult(lookups[p]))

\* C17 witness: a lookup found an entry of exactly ttl age, issued a
\* request and returned the list of its own response, which is not the
\* stale data
C17_Witness ==
    \E p \in Returned :
        /\ lookups[p].cached # NoEntry
        /\ lookups[p].at - lookups[p].cached.timestamp = Ttl
        /\ ~lookups[p].hit
        /\ lookups[p].answer = "status-200"
        /\ lookups[p].result # lookups[p].cached.data
        /\ lookups[p].result # <<>>

\* the list is one of offers with every field of the Offer shape
OfferList(list) ==
    \A o \in Elems(list) :
        DOMAIN o = {"id", "name", "price", "currency", "store", "storeUrl", "availability"}

\* C18: lookups that run interleaved on a missing or stale entry of one key
\* each issue their own request and each return the offer list of their own
\* response; the cache then holds for the key the one entry written by the
\* lookup that wrote last, whole: its list, its time of writing and the ttl.
C18_LastWriteWins ==
    /\ \A p \in Callers :
           (lookups[p].pc # "idle" /\ ~lookups[p].hit) =>
               /\ lookups[p].answer # NoAnswer
               /\ lookups[p].pc = "done" =>
                      /\ lookups[p].result = OwnResult(lookups[p])
                      /\ OfferList(lookups[p].result)
    /\ lastChange.op = "set" =>
           /\ lastChange.key \in DOMAIN cache
           /\ cache[lastChange.key].timestamp = lastChange.at
           /\ cache[lastChange.key].ttl = Ttl
           /\ LET l == lookups[lastChange.by] IN
              (l.calls = lastChange.call /\ l.pc = "done") =>
                  /\ l.key = lastChange.key
                  /\ cache[lastChange.key].data = l.result
    /\ \A k \in DOMAIN cache :
           /\ DOMAIN cache[k] = {"data", "timestamp", "ttl"}
           /\ OfferList(cache[k].data)
           /\ cache[k].timestamp <= now

\* C18 witness: two lookups found the same stale entry of one key, both
\* got products and wrote; the cache holds the list of the one that wrote
\* last, which is not the list of the other
C18_Witness ==
    /\ lookups[1].pc = "done" /\ lookups[2].pc = "done"
    /\ lookups[1].key = lookups[2].key
    /\ \A p \in Callers :
           /\ lookups[p].cached # NoEntry /\ lookups[p].cached.timestamp = 0
           /\ lookups[p].at = Ttl /\ ~lookups[p].hit
           /\ lookups[p].body.t = "object" /\ lookups[p].result # <<>>
    /\ lookups[1].result # lookups[2].result
    /\ lastChange.op = "set" /\ lastChange.by = 1
    /\ cache[lookups[1].key].data = lookups[1].result

(***************************************************************************)
(* Claims about store names and the API route                              *)
(***************************************************************************)
\* C19: every offer returned by scrapeProduct names an actual store: its
\* store is not empty and is not the placeholder 'Unknown'.
C19_ActualStore ==
    (entry = "product" /\ pc = "p_done") =>
        \A o \in Elems(pRet.value) : o.store # <<>> /\ o.store # Unknown

\* C20: the module identifier the API route gives scrapeSearch has no
\* version suffix left (white space, 'ver', white space, digits and dots, in
\* any letter case), and cleanProductName leaves it unchanged.
C20_QueryCleaned ==
    (route.pc = "search" /\ entry = "search") =>
        /\ arg = cleanProductName(route.moduleNumber)
        /\ ~hasVersionSuffix(arg)
        /\ cleanProductName(arg) = arg


(***************************************************************************)
(* Claims about what dedupeProducts keeps                                  *)
(***************************************************************************)
\* the identity of an offer: its name, its store and its storeUrl
identityOf(p) == <<p.name, p.store, p.storeUrl>>

RECURSIVE firstOfEachIdentity(_, _)
\* the offers of list, from position i on, that no earlier offer of list
\* shares its identity with, in the order of list
firstOfEachIdentity(list, i) ==
    IF i > Len(list) THEN <<>>
    ELSE IF \E j \in 1..(i - 1) : identityOf(list[j]) = identityOf(list[i])
         THEN firstOfEachIdentity(list, i + 1)
         ELSE <<list[i]>> \o firstOfEachIdentity(list, i + 1)

\* C21: dedupe keeps, for each identity (name, store, storeUrl), exactly the
\* first offer of the input with that identity and drops the later ones, and
\* the kept offers are in the order of the input.
C21_FirstOfEachIdentity ==
    Len(dedupeOut) >= 1 => dedupeOut[1] = firstOfEachIdentity(dedupeIn, 1)

(***************************************************************************)
(* Claims about the extractors                                             *)
(***************************************************************************)
\* the label holds the host brand, 'butik', 'annons' or 'kr', in any case
HoldsNoiseToken(label) ==
    \E w \in {<<"p","r","i","s","j","a","k","t">>, <<"b","u","t","i","k">>, <<"a","n","n","o","n","s">>, <<"k","r">>} : includes(toLowerCase(label), w)

\* the page has no product-name anchor, no price block or no store block
LacksCardPart(html) ==
    \/ \A i \in 1..Len(html.anchors) :
           ~(html.anchors[i].productName /\ isProductHref(html.anchors[i].href))
    \/ html.priceBlock = Undefined
    \/ html.storeBlock = Undefined

\* C22: the primary-card extractor returns the empty list or exactly one
\* offer; it returns the empty list when the product-name anchor, the price
\* block or the store block is absent or when the store label holds a noise
\* token; an offer it returns has availability in_stock.
C22_PrimaryCard ==
    (entry = "search" /\ sStages # <<>> /\ ~sStages[1].threw) =>
        /\ sStages[1].stage = "primary"
        /\ Len(sStages[1].out) <= 1
        /\ \A o \in Elems(sStages[1].out) : o.availability = in_stock
        /\ (sHtml # NoDocument /\
            (LacksCardPart(sHtml) \/ HoldsNoiseToken(sHtml.storeBlock))) =>
               sStages[1].out = <<>>

\* C22 witness: the primary card of a page with two anchors gave one offer
C22_Witness ==
    /\ entry = "search" /\ pc = "s_done"
    /\ sHtml # NoDocument /\ Len(sHtml.anchors) = 2
    /\ Len(sStages) = 1 /\ ~sStages[1].threw
    /\ Len(sStages[1].out) = 1
    /\ sStages[1].out[1].availability = in_stock
    /\ sStages[1].out[1].store = <<"M","J"," ","M","u","l","t","i","m","e","d","i","a">>

RECURSIVE ProductsUnder(_)
\* the Product nodes with a name at and below a parsed value
ProductsUnder(obj) ==
    (IF obj.type = "Product" /\ Truthy(obj.name) THEN {obj} ELSE {})
    \cup UNION {ProductsUnder(obj.children[i]) : i \in 1..Len(obj.children)}

\* an offer entry with a finite positive price, an availability that is a
\* text or missing, and a seller other than the host brand
UsableEntry(e) ==
    /\ e.t = "object"
    /\ ~badPrice(numericPriceOf(e.price))
    /\ e.availability # NonString
    /\ ~includes(toLowerCase(OrElse(e.seller, Unknown)), prisjakt)

\* the offers of the list that come from the entry e of the Product p
FromEntry(list, p, e) ==
    {o \in Elems(list) :
        /\ o.name = p.name
        /\ o.store = OrElse(e.seller, Unknown)
        /\ o.storeUrl = OrElse(e.url, OrElse(p.url, <<>>))}

\* C23: structured-data extraction degrades per entry, not per document: a
\* block that does not parse is skipped and the offers of the other blocks
\* are returned, and a malformed offer entry is dropped without removing
\* the valid offers of the same product, the same block or other blocks.
C23_PerEntryDegradation ==
    (pStages # <<>> /\ pStages[1].stage = "jsonld" /\ ~pStages[1].threw
        /\ pHtml # NoDocument) =>
        \A b \in Elems(pHtml.ld) : \A item \in Elems(b.items) :
        \A p \in ProductsUnder(item) : \A e \in Elems(normalizeOffers(p.offers)) :
            UsableEntry(e) => FromEntry(pStages[1].out, p, e) # {}

(***************************************************************************)
(* Claims about the cache                                                  *)
(***************************************************************************)
\* the request of the lookup failed: the fetch rejected, the status was
\* outside 2xx, or the body could not be read as an object with a list of
\* product objects
RequestFailed(l) ==
    \/ l.answer # "status-200"
    \/ l.body.t \in {"unparsable", "null"}
    \/ l.body.t = "object" /\ \E i \in 1..Len(l.body.products) : l.body.products[i].t = "null"

\* the lookup of p ends in this step, after it issued a request
EndsRequest(p) ==
    lookups[p].pc \in {"fetch", "json"} /\ lookups'[p].pc = "done"

\* C24: the cache is written only after a successful fetch: a lookup whose
\* request fails returns the empty list and leaves the cache as it was; no
\* entry is created and an existing stale entry of the key keeps its data
\* and timestamp.
C24_FailureKeepsCache ==
    [][/\ \A p \in Callers :
              (EndsRequest(p) /\ RequestFailed(lookups'[p])) =>
                  /\ lookups'[p].result = <<>>
                  /\ cache' = cache
       /\ (cache' # cache /\ cache' # EmptyCache) =>
              \E p \in Callers : EndsRequest(p) /\ ~RequestFailed(lookups'[p])]_vars

\* C24 witness: a lookup found a stale entry with products, its request was
\* answered with a body that cannot be read, it returned the empty list and
\* the entry is as it was
C24_Witness ==
    \E p \in Returned :
        /\ lookups[p].cached # NoEntry /\ lookups[p].cached.data # <<>>
        /\ ~lookups[p].hit
        /\ lookups[p].answer = "status-200" /\ lookups[p].body.t = "null"
        /\ lookups[p].result = <<>>
        /\ lookups[p].key \in DOMAIN cache
        /\ cache[lookups[p].key] = lookups[p].cached

\* in this step the keys of the cache stay or grow, and an entry changes
\* only by being overwritten with the list of a successful fetch for its key
KeysKept ==
    /\ DOMAIN cache \subseteq DOMAIN cache'
    /\ \A k \in DOMAIN cache :
           cache'[k] # cache[k] =>
               \E p \in Callers :
                   /\ EndsRequest(p) /\ ~RequestFailed(lookups'[p])
                   /\ lookups'[p].key = k
                   /\ cache'[k].data = lookups'[p].result

\* C25 as stated: a cache entry, once created, is never removed: after any
\* sequence of operations on the cache owner the set of cached keys only
\* grows or stays the same, an entry changing only by being overwritten by a
\* later successful fetch for the same key.
C25_KeysOnlyGrow == [][KeysKept]_vars

\* C25 amended: apart from clearCache(), which empties the cache, no
\* operation of the cache owner removes an entry: the set of cached keys
\* only grows or stays the same, an entry changing only by being
\* overwritten by a later successful fetch for the same key.
C25_KeysOnlyGrowUnlessCleared == [][clearCache \/ KeysKept]_vars

\* C25 witness: the cache holds the entries of two keys, one of them
\* overwritten by the fetch of a lookup that had found it stale
C25_Witness ==
    /\ Cardinality(DOMAIN cache) = 2
    /\ lastChange.op = "set"
    /\ LET l == lookups[lastChange.by] IN
       /\ l.pc = "done" /\ l.calls = lastChange.call
       /\ l.cached # NoEntry /\ ~l.hit
       /\ cache[l.key].timestamp > l.cached.timestamp
       /\ cache[l.key].data # l.cached.data

(***************************************************************************)
(* Claims about the batch refresh of the page                              *)
(***************************************************************************)
\* the calls a batch over n modules makes when it takes them one at a
\* time: the lookup of a module, then the update of its rows, then the next
OneAtATime(n) ==
    [k \in 1..(2 * n) |->
        IF k % 2 = 1 THEN [ev |-> "serverSearch", i |-> (k + 1) \div 2]
        ELSE [ev |-> "setRamModules", i |-> k \div 2]]

\* the rows of the table with the module name of the batch entry i
RowsOf(rows, i) == {k \in 1..Len(rows) : rows[k].module = page.modulesToRefresh[i]}

\* the lookup failed or gave no product
NothingFound(returned) == returned.threw \/ returned.value = <<>>

\* C26: handleRefreshAllPrices takes the modules strictly one at a time in
\* list order: the lookup of module i+1 starts only after the lookup of
\* module i has ended and its row was updated; an empty result or a failed
\* lookup marks the module 'Not Found' and does not stop the loop, so every
\* module of the batch is eventually processed and isLoading is false at
\* the end.
C26_BatchOneAtATime ==
    /\ [](/\ page.events = SubSeq(OneAtATime(Len(page.modulesToRefresh)), 1, Len(page.events))
          /\ page.pc \in {"fetch", "json"} =>
                 /\ page.isLoading
                 /\ Len(page.events) = 2 * page.i - 1
          /\ page.pc = "done" =>
                 /\ ~page.isLoading
                 /\ page.events = OneAtATime(Len(page.modulesToRefresh)))
    /\ [][Len(page'.events) > Len(page.events) /\ page.pc # "idle" =>
              /\ \A k \in RowsOf(page.ramModules, page.i) :
                     /\ page'.ramModules[k].lastUpdated > page.ramModules[k].lastUpdated
                     /\ NothingFound(page'.returned) =>
                            /\ page'.ramModules[k].store = NotFound
                            /\ page'.ramModules[k].price = NoPrice
              /\ RowsOf(page.ramModules, page.i) # {}
              /\ IF page.i < Len(page.modulesToRefresh)
                 THEN page'.pc = "fetch" /\ page'.i = page.i + 1
                 ELSE page'.pc = "done"]_vars
    /\ (page.pc \in {"fetch", "json"} ~> page.pc = "done")

\* C26 witness: a batch of three modules ended; the lookup of the first
\* found nothing, its rows say 'Not Found', and a later module has a price
C26_Witness ==
    /\ page.pc = "done" /\ ~page.isLoading
    /\ Len(page.modulesToRefresh) = 3
    /\ Len(page.events) = 6
    /\ \A k \in RowsOf(page.ramModules, 1) :
           page.ramModules[k].store = NotFound /\ page.ramModules[k].lastUpdated = 2
    /\ Cardinality(RowsOf(page.ramModules, 1)) = 2
    /\ \E k \in RowsOf(page.ramModules, 3) :
           page.ramModules[k].price # NoPrice /\ page.ramModules[k].lastUpdated = 6

(***************************************************************************)
(* Claims about stages that cannot contribute                              *)
(***************************************************************************)
\* C27: the naive-pattern stage never contributes to a scrapeSearch result:
\* every offer the naive extractor builds has store 'Prisjakt', so the
\* store filter applied to that stage always yields the empty list and
\* scrapeSearch always proceeds to the product-link fallback when the first
\* two stages are empty.
C27_NaiveNeverContributes ==
    (entry = "search" /\ Len(sStages) >= 3 /\ ~sStages[3].threw) =>
        /\ sStages[3].stage = "naive"
        /\ sStages[3].out = <<>>
        /\ sHtml # NoDocument =>
               /\ \A o \in Elems(extractProductsNaively(sHtml)) : o.store = <<"P","r","i","s","j","a","k","t">>
               /\ productLinks(sHtml) = <<>>
               /\ pc = "s_done" => sRet.value = <<>>
        /\ sHtml = NoDocument =>
               /\ Len(sStages) = 4 /\ sStages[4].stage = "product"
               /\ sStages[4].links # <<>>
               /\ Len(fetches) = 2

\* C27 witness: the naive extractor built an offer on a page without
\* product-detail link, none passed the store filter and the result is empty
C27_Witness ==
    /\ entry = "search" /\ pc = "s_done"
    /\ sHtml # NoDocument /\ Len(sStages) = 3 /\ ~sStages[3].threw
    /\ Len(extractProductsNaively(sHtml)) = 1
    /\ sStages[3].out = <<>>
    /\ sRet.value = <<>>

\* the cache key of the lookup is made of its query text alone
KeyedByQuery(l) ==
    IF l.fn = "searchRAM" THEN l.key = <<"r","a","m","_">> \o l.query
    ELSE \E a \in SpecsArgs :
             /\ l.query = a[1] \o <<" ">> \o a[2] \o <<" ","D","D","R","5"," ">> \o a[3]
             /\ l.key = <<"r","a","m","_","s","p","e","c","s","_">> \o a[1] \o <<"_">> \o a[2] \o <<"_">> \o a[3]

\* C28: the cache is one process-wide map shared by every PrisjaktAPI
\* instance and keyed by the query text only, not by the API key: a fresh
\* entry written through an instance built with key A is returned to an
\* instance built with any other key B without a request being made.
C28_CacheSharedAcrossKeys ==
    [][\A p \in Callers :
           lookups'[p].calls # lookups[p].calls =>
               /\ KeyedByQuery(lookups'[p])
               /\ \A k \in DOMAIN cache :
                      (k = lookups'[p].key /\ now - cache[k].timestamp < cache[k].ttl) =>
                          /\ lookups'[p].pc = "done"
                          /\ lookups'[p].answer = NoAnswer
                          /\ lookups'[p].result = cache[k].data]_vars

\* C28 witness: the instance with key B was given, without a request, the
\* products of the entry that the lookup of the instance with key A wrote
C28_Witness ==
    /\ lastChange.op = "set" /\ lastChange.by = 1
    /\ lookups[1].apiKey = <<"k","e","y","-","A">> /\ lookups[2].apiKey = <<"k","e","y","-","B">>
    /\ lookups[2].pc = "done" /\ lookups[2].hit
    /\ lookups[2].answer = NoAnswer
    /\ lookups[2].key = lastChange.key
    /\ lookups[2].result # <<>>
    /\ lookups[2].result = lookups[1].result
    /\ lookups[1].calls = lastChange.call /\ ~lookups[1].hit

(***************************************************************************)
(* Claims about what the route and scrapeProduct pass on                   *)
(***************************************************************************)
\* C29: in the scraping path of the API route, when scrapeSearch returns
\* exactly one offer the response is the result of scrapeProduct on that
\* offer's storeUrl and nothing else, also when that result is the empty
\* list; when scrapeSearch returns no offer or at least two, the response
\* is that list unchanged and scrapeProduct is not called.
C29_RefineSingleOffer ==
    (route.pc = "responded" /\ route.response.status = 200 /\ ~Truthy(route.apiKey)) =>
        IF Len(route.products) = 1
        THEN /\ entry = "product" /\ pc = "p_done"
             /\ arg = route.products[1].storeUrl
             /\ Len(fetches) = 1
             /\ fetches[1].url = productUrl(route.products[1].storeUrl)
             /\ pRet.outcome = "returned"
             /\ route.response.products = pRet.value
        ELSE /\ entry = "search" /\ pc = "s_done"
             /\ route.products = sRet.value
             /\ route.response.products = route.products
             /\ \A i \in 1..Len(fetches) : fetches[i].url \in Elems(route.urls)

\* C29 witness: scrapeSearch returned one offer, scrapeProduct on its
\* storeUrl was answered 200 and returned the empty list, and the response
\* is the empty list
C29_Witness ==
    /\ route.pc = "responded" /\ route.response.status = 200
    /\ Len(route.products) = 1
    /\ entry = "product" /\ pc = "p_done"
    /\ fetches[1].answer = "status-200"
    /\ pRet.value = <<>>
    /\ route.response.products = <<>>

\* the offer o of the structured-data stage stems from an offer entry of a
\* Product of the page and has the availability toAvailability gives for
\* that entry
AsStructuredDataSays(html, o) ==
    \E b \in Elems(html.ld) : \E item \in Elems(b.items) :
    \E p \in ProductsUnder(item) : \E e \in Elems(normalizeOffers(p.offers)) :
        /\ e.t = "object" /\ e.availability # NonString
        /\ o \in FromEntry(<<o>>, p, e)
        /\ o.availability =
               (IF ~Truthy(e.availability) THEN not_available
                ELSE IF SaysInStock(e.availability) THEN in_stock
                ELSE IF SaysIncoming(e.availability) THEN incoming
                ELSE not_available)

\* C30: the page-wide no-stock marker is applied only inside the
\* product-page offer extractor: when the result of scrapeProduct comes from
\* the structured-data stage or from the last-resort heading scrape, the
\* offers keep the availability those stages assigned (the last-resort
\* offer is in_stock) although the page holds the marker.
C30_MarkerOnlyInOfferExtractor ==
    (pc \in {"p_done", "s_done"} /\ pStages # <<>> /\ pHtml # NoDocument
        /\ pHtml.marker /\ ~pStages[Len(pStages)].threw) =>
        LET last == pStages[Len(pStages)] IN
        /\ last.stage = "jsonld" =>
               \A o \in Elems(last.out) : AsStructuredDataSays(pHtml, o)
        /\ last.stage = "heading" =>
               \A o \in Elems(last.out) : o.availability = in_stock
        /\ last.stage = "offers" =>
               \A o \in Elems(last.out) : o.availability = not_available
        /\ entry = "product" /\ pc = "p_done" => pRet.value = last.out

\* C30 witness: on a page with the marker and go-to-shop offers the
\* structured-data stage gave the result, an offer that is in_stock
C30_Witness ==
    /\ entry = "product" /\ pc = "p_done"
    /\ pHtml # NoDocument /\ pHtml.marker /\ pHtml.offers # <<>>
    /\ Len(pStages) = 1 /\ pStages[1].stage = "jsonld" /\ ~pStages[1].threw
    /\ \E o \in Elems(pRet.value) : o.availability = in_stock

\* C30 witness, last resort: on a page with the marker both extractors were
\* empty and the heading offer returned is in_stock
C30_WitnessHeading ==
    /\ entry = "product" /\ pc = "p_done"
    /\ pHtml # NoDocument /\ pHtml.marker
    /\ Len(pStages) = 3 /\ pStages[3].stage = "heading" /\ ~pStages[3].threw
    /\ Len(pRet.value) = 1 /\ pRet.value[1].availability = in_stock
====
